---------------------------- MODULE Spec2Model ----------------------------
(***************************************************************************)
(* A model of the call-construction core of the Tart compiler front end:   *)
(* CallExpr and its candidate queries (lib/CFG/Expr.cpp), the expression   *)
(* nodes' isSingular predicates (lib/CFG/Expr.cpp) and the call drivers of *)
(* ExprAnalyzer (lib/Sema/ExprAnalyzerCall.cpp).                           *)
(***************************************************************************)
EXTENDS Integers, Sequences, FiniteSets, TLC

VARIABLES
  cx,        \* SpecCall: the CallExpr under construction / resolution
  nast,      \* SpecCall: the number of AST arguments of the call
  nalloc,    \* SpecCall: number of constraint objects allocated so far
  expr,      \* SpecExpr: the expression tree built so far
  pc,        \* Spec: "idle" before a call driver ran, "done" after
  op,        \* Spec: the driver that ran and the inputs it was given
  ctors,     \* Spec: the FunctionDefns carrying the Ctor trait
  result,    \* Spec: what the driver returned
  diags,     \* Spec: the diagnostics the driver emitted, in order
  heap,      \* SpecEnv: the Substitution objects allocated so far
  env,       \* SpecEnv: substitutions_ of the BindingEnv
  copy,      \* SpecEnv: substitutions_ of a copy of the BindingEnv
  saved,     \* SpecEnv: the chain head a caller recorded, or NoSnapshot
  seen,      \* SpecEnv: the bindings observed when it was recorded
  scopes,    \* SpecScope: the Scope objects, by address
  ir,        \* SpecGen: the instructions the IR builder was given, in order
  gval,      \* SpecGen: the Value the generator returned
  registry,  \* SpecBuiltins: the static members of Builtins
  binit,     \* SpecBuiltins: Builtins::init has completed
  initialized, \* SpecGC: the static flag of GC.cpp
  allocList, \* SpecGC: allocList_, the objects from the head on
  marked,    \* SpecGC: the objects whose marked_ is set
  freed,     \* SpecGC: the objects given to free(), in order
  callbacks, \* SpecGC: uninitCallbacks
  called,    \* SpecGC: the callbacks invoked so far, in order
  total,     \* SpecGC: GC::total
  reclaimed, \* SpecGC: GC::reclaimed
  message    \* SpecGC: what the last sweep reported, if it reported

envVars == <<heap, env, copy, saved, seen>>
callVars == <<cx, nast, nalloc, expr, pc, ctors, result, diags>>
scopeVars == <<scopes>>
genVars == <<ir, gval>>
bltVars == <<registry, binit>>
gcVars == <<initialized, allocList, marked, freed, callbacks, called, total,
            reclaimed, message>>
restVars == <<scopeVars, genVars, bltVars, gcVars>>
vars == <<cx, nast, nalloc, expr, pc, op, ctors, result, diags, envVars,
          restVars>>

---------------------------------------------------------------------------
(* Bounds of the model.                                                    *)

MaxCands == 2
MaxArgs == 2
MaxAlloc == 2
MaxDepth == 2
MaxScope == 2

---------------------------------------------------------------------------
(* Types.  A type is a record (kind, id); TNull is the undefined TypeRef   *)
(* (a NULL Type pointer).                                                  *)

TNull == [kind |-> "Null", id |-> 0]
BadType == [kind |-> "Bad", id |-> 0]
TyVoid == [kind |-> "Primitive", id |-> 0]
TyI == [kind |-> "Primitive", id |-> 1]
TyBool == [kind |-> "Primitive", id |-> 2]
TyA == [kind |-> "Composite", id |-> 1]
TyB == [kind |-> "Composite", id |-> 2]
TyT == [kind |-> "Composite", id |-> 3]
TyS == [kind |-> "Composite", id |-> 4]
TyTT == [kind |-> "Composite", id |-> 5]
TyP == [kind |-> "PatternVar", id |-> 1]

ResultOfConstraint(n) == [kind |-> "ResultOfConstraint", id |-> n]
ParameterOfConstraint(n, index) ==
  [kind |-> "ParameterOfConstraint", id |-> n, index |-> index]

\* TypeRef::isDefined: the reference holds a type.
IsDefined(t) == t # TNull

\* Type::isSingular: no pattern variable, pattern value or constraint.
TypeIsSingular(t) == t.kind \in {"Primitive", "Composite", "Bad"}

\* TypeRef::isEqual.
TypeIsEqual(a, b) == a = b

---------------------------------------------------------------------------
(* Definitions (FunctionDefn, VariableDefn, TypeDefn).  The table is the   *)
(* program under analysis; ids are declaration order.                      *)

FnType(params, ret, self) == [params |-> params, ret |-> ret, self |-> self]

Defn(kind, name, storage, ftype, okCmp, okConv) ==
  [kind |-> kind, name |-> name, storage |-> storage, ftype |-> ftype,
   okCmp |-> okCmp, okConv |-> okConv]

NoFnType == FnType(<<>>, TNull, TNull)

DefnTable ==
  << \* 1..4: members of class T (T.memberScope)
     Defn("fn", "construct", "Instance", FnType(<<TyA>>, TNull, TyT), TRUE, TRUE),
     Defn("fn", "construct", "Instance", FnType(<<>>, TyVoid, TyT), TRUE, TRUE),
     Defn("fn", "create", "Static", FnType(<<TyA>>, TyT, TNull), TRUE, TRUE),
     Defn("fn", "create", "Instance", FnType(<<>>, TyT, TyT), TRUE, TRUE),
     \* 5: constructor of S, the superclass of T
     Defn("fn", "construct", "Instance", FnType(<<TyA>>, TNull, TyS), TRUE, TRUE),
     \* 6..11: functions named f
     Defn("fn", "f", "Global", FnType(<<TyA>>, TyI, TNull), TRUE, TRUE),
     Defn("fn", "f", "Static", FnType(<<TyI>>, TyA, TNull), TRUE, TRUE),
     Defn("fn", "f", "Instance", FnType(<<>>, TyI, TyT), TRUE, TRUE),
     Defn("fn", "f", "Global", FnType(<<TyA>>, TyI, TNull), TRUE, FALSE),
     Defn("fn", "f", "Static", FnType(<<TyA, TyI>>, TyI, TNull), TRUE, TRUE),
     Defn("fn", "f", "Global", FnType(<<TyP>>, TyP, TNull), TRUE, TRUE),
     \* 12..15: variables named f
     Defn("varFn", "f", "Global", FnType(<<TyA>>, TyI, TNull), TRUE, TRUE),
     Defn("varOther", "f", "Global", NoFnType, TRUE, TRUE),
     Defn("varFn", "f", "Global", FnType(<<TyA>>, TyI, TNull), FALSE, FALSE),
     Defn("varBound", "f", "Local", FnType(<<TyA>>, TyA, TNull), TRUE, TRUE),
     \* 16..18: types named f (a constructor call T(...))
     Defn("type", "T", "Global", NoFnType, TRUE, TRUE),
     Defn("type", "S", "Global", NoFnType, TRUE, TRUE),
     Defn("typeNoDefn", "int", "Global", NoFnType, TRUE, TRUE),
     \* 19..21: members of the template class TT
     Defn("fn", "construct", "Instance", FnType(<<TyA>>, TNull, TyTT), TRUE, TRUE),
     Defn("fn", "construct", "Instance", FnType(<<TyA>>, TNull, TyTT), FALSE, FALSE),
     Defn("fn", "create", "Static", FnType(<<TyA>>, TyTT, TNull), TRUE, TRUE),
     \* 22: a coercer of T
     Defn("fn", "coerce", "Static", FnType(<<TyA>>, TyT, TNull), TRUE, TRUE),
     \* 23: a module named f; 24: the template class TT
     Defn("module", "f", "Global", NoFnType, TRUE, TRUE),
     Defn("type", "TT", "Global", NoFnType, TRUE, TRUE),
     \* 25..27: members named f of S, the superclass of T
     Defn("fn", "f", "Instance", FnType(<<TyA>>, TyI, TyS), TRUE, TRUE),
     Defn("fn", "f", "Instance", FnType(<<>>, TyI, TyS), TRUE, TRUE),
     Defn("varOther", "f", "Instance", NoFnType, TRUE, TRUE),
     \* 28..30: more coercers of T
     Defn("fn", "coerce", "Static", FnType(<<TyA, TyI>>, TyT, TNull), TRUE, TRUE),
     Defn("fn", "coerce", "Static", FnType(<<TyI>>, TyT, TNull), TRUE, FALSE),
     Defn("fn", "coerce", "Static", FnType(<<TyI>>, TyT, TNull), TRUE, TRUE)
  >>

\* The definitions that carry the Ctor trait before any call is analyzed:
\* the constructors of non-template classes.
InitialCtors == {1, 2, 5}

\* FunctionDefn::isCtor, given the set of definitions carrying the trait.
isCtor(cs, m) == m \in cs

---------------------------------------------------------------------------
(* CallCandidate.                                                          *)

\* CallCandidate(call, baseExpr, method, pa); method 0 is a NULL method
\* (a candidate built from a function type).
CallCandidate(base, method, ftype) ==
  [base |-> base, method |-> method, ftype |-> ftype, culled |-> FALSE]

\* CallCandidate::paramType(i): the type of the parameter the i-th
\* positional argument maps to.
paramType(c, index) ==
  IF index + 1 \in DOMAIN c.ftype.params THEN c.ftype.params[index + 1] ELSE TNull

\* CallCandidate::resultType(): the function's result.
resultType(c) == c.ftype.ret

\* CallCandidate::isSingular().
CandidateIsSingular(c) ==
  /\ \A i \in DOMAIN c.ftype.params : TypeIsSingular(c.ftype.params[i])
  /\ (IsDefined(c.ftype.ret) => TypeIsSingular(c.ftype.ret))

\* ParameterAssignmentsBuilder::assignFromAST: positional arguments only.
assignFromAST(ftype, nargs) == Len(ftype.params) = nargs

---------------------------------------------------------------------------
(* Expression nodes.  Every node is a record                               *)
(*   kind, type, kids (child expressions), cands (CallExpr::candidates_),  *)
(*   fn (CallExpr::function_, <<>> when NULL), flag                        *)
(* where flag is what the node's definition or type operand answers to     *)
(* isSingular(): LValueExpr::value_, InitVarExpr::var,                     *)
(* BoundMethodExpr::method_, FnCallExpr::function_, InstanceOfExpr::toType_*)

Node(kind, type, kids, flag) ==
  [kind |-> kind, type |-> type, kids |-> kids, cands |-> <<>>, fn |-> <<>>,
   flag |-> flag, expected |-> TNull]

\* Expr::ErrorVal (ErrorExpr::ErrorExpr).
ErrorVal == Node("Error", BadType, <<>>, TRUE)

\* isErrorResult(Expr *).
isErrorResult(e) == e.kind = "Error"

NewExpr(type) == Node("New", type, <<>>, TRUE)
UnaryExpr(type, arg) == Node("Unary", type, <<arg>>, TRUE)
BinaryExpr(type, first, second) == Node("Binary", type, <<first, second>>, TRUE)
\* LValueExpr(loc, base, value): kids is <<>> for a NULL base.
LValueExpr(type, base, valueSingular) == Node("LValue", type, base, valueSingular)
InitVarExpr(type, init, varSingular) == Node("InitVar", type, <<init>>, varSingular)
BoundMethodExpr(type, self, methodSingular) ==
  Node("BoundMethod", type, self, methodSingular)
FnCallExpr(type, args, fnSingular) == Node("FnCall", type, args, fnSingular)
InstanceOfExpr(value, toTypeSingular) ==
  Node("InstanceOf", TyBool, <<value>>, toTypeSingular)

\* new CallExpr(k, loc, function): no candidates, no arguments, no type,
\* no expected return type.
CallExpr(function) ==
  [kind |-> "Call", type |-> TNull, kids |-> <<>>, cands |-> <<>>,
   fn |-> function, flag |-> TRUE, expected |-> TNull]

\* Mutant: a unary node answers for its own type only.
UnaryIsSingularTypeOnly(e) == TypeIsSingular(e.type)

RECURSIVE ExprIsSingular(_)

\* UnaryExpr::isSingular.
UnaryIsSingular(e) == TypeIsSingular(e.type) /\ ExprIsSingular(e.kids[1])

\* ArglistExpr::isSingular: every argument is singular.
ArglistIsSingular(e) == \A i \in DOMAIN e.kids : ExprIsSingular(e.kids[i])

\* CallExpr::isSingular.
CallIsSingular(e) ==
  IF ~ArglistIsSingular(e) THEN FALSE
  ELSE IF e.cands # <<>>
       THEN Len(e.cands) = 1 /\ CandidateIsSingular(Head(e.cands))
       ELSE e.fn # <<>> /\ ExprIsSingular(Head(e.fn))

\* Expr::isSingular, per node class.
ExprIsSingular(e) ==
  CASE e.kind = "Unary" -> UnaryIsSingular(e)
    [] e.kind = "Binary" ->
         /\ TypeIsSingular(e.type)
         /\ ExprIsSingular(e.kids[1])
         /\ ExprIsSingular(e.kids[2])
    [] e.kind = "LValue" -> (e.kids = <<>> \/ ExprIsSingular(e.kids[1])) /\ e.flag
    [] e.kind = "InitVar" -> ExprIsSingular(e.kids[1]) /\ e.flag
    [] e.kind = "BoundMethod" ->
         (e.kids = <<>> \/ ExprIsSingular(e.kids[1])) /\ e.flag
    [] e.kind = "FnCall" -> e.flag /\ ArglistIsSingular(e)
    [] e.kind = "New" -> TypeIsSingular(e.type)
    [] e.kind = "InstanceOf" -> ExprIsSingular(e.kids[1]) /\ e.flag
    [] e.kind = "Call" -> CallIsSingular(e)
    [] OTHER -> TypeIsSingular(e.type)

---------------------------------------------------------------------------
(* CallExpr's queries over its candidate list.  Each scan is the loop of   *)
(* the method: k is the iterator, acc the local singularType /             *)
(* singularCandidate (TNull, 0: not yet set).                              *)

RECURSIVE ParamTypeScan(_, _, _, _)
ParamTypeScan(cands, index, k, acc) ==
  IF k > Len(cands) THEN acc
  ELSE IF cands[k].culled THEN ParamTypeScan(cands, index, k + 1, acc)
  ELSE LET ty == paramType(cands[k], index) IN
       IF ~IsDefined(acc) THEN ParamTypeScan(cands, index, k + 1, ty)
       ELSE IF ~TypeIsEqual(ty, acc) THEN TNull
       ELSE ParamTypeScan(cands, index, k + 1, acc)

\* CallExpr::singularParamType(index).
singularParamType(call, index) == ParamTypeScan(call.cands, index, 1, TNull)

\* Mutant: a constructor contributes its declared return type.
candidateResultDeclared(cs, cc) == resultType(cc)

\* The type a candidate contributes to the call's result type.
candidateResult(cs, cc) ==
  IF cc.method # 0 /\ isCtor(cs, cc.method) THEN cc.ftype.self ELSE resultType(cc)

RECURSIVE ResultTypeScan(_, _, _, _)
ResultTypeScan(cs, cands, k, acc) ==
  IF k > Len(cands) THEN acc
  ELSE IF cands[k].culled THEN ResultTypeScan(cs, cands, k + 1, acc)
  ELSE LET ty == candidateResult(cs, cands[k]) IN
       IF ~IsDefined(acc) THEN ResultTypeScan(cs, cands, k + 1, ty)
       ELSE IF ~TypeIsEqual(ty, acc) THEN TNull
       ELSE ResultTypeScan(cs, cands, k + 1, acc)

\* CallExpr::singularResultType().
singularResultType(cs, call) == ResultTypeScan(cs, call.cands, 1, TNull)

RECURSIVE CandidateScan(_, _, _)
CandidateScan(cands, k, acc) ==
  IF k > Len(cands) THEN acc
  ELSE IF cands[k].culled THEN CandidateScan(cands, k + 1, acc)
  ELSE IF acc = 0 THEN CandidateScan(cands, k + 1, k)
  ELSE 0

\* Mutant: the first non-culled candidate, however many there are.
singularCandidateFirst(call) ==
  IF \E k \in DOMAIN call.cands : ~call.cands[k].culled
  THEN CHOOSE k \in DOMAIN call.cands :
         /\ ~call.cands[k].culled
         /\ \A j \in 1..(k - 1) : call.cands[j].culled
  ELSE 0

\* CallExpr::singularCandidate(): the position of the candidate returned,
\* 0 for NULL.
singularCandidate(call) == CandidateScan(call.cands, 1, 0)

\* CallExpr::hasAnyCandidates().
hasAnyCandidates(call) == \E k \in DOMAIN call.cands : ~call.cands[k].culled

---------------------------------------------------------------------------
(* ExprAnalyzer's helpers.  k is the analyzer's view of one call under     *)
(* construction: the CallExpr (call), the diagnostics emitted so far       *)
(* (diags) and the number of constraint objects allocated so far (nalloc). *)
(* An AST argument is modelled by the expression reduceExpr yields for it. *)

\* Mutant: no constraint stands in for a missing common result type.
reduceReturnTypeNoConstraint(cs, call, n) ==
  [type |-> singularResultType(cs, call), nalloc |-> n]

\* ExprAnalyzer::reduceReturnType(call): the type and the allocations.
reduceReturnType(cs, call, n) ==
  LET ty == singularResultType(cs, call) IN
  IF ty # TNull THEN [type |-> ty, nalloc |-> n]
  ELSE [type |-> ResultOfConstraint(n + 1), nalloc |-> n + 1]

\* Mutant: no constraint stands in for a missing common parameter type.
getMappedParameterTypeNoConstraint(call, index, n) ==
  [type |-> singularParamType(call, index), nalloc |-> n]

\* ExprAnalyzer::getMappedParameterType(call, index).
getMappedParameterType(call, index, n) ==
  LET ty == singularParamType(call, index) IN
  IF ty # TNull THEN [type |-> ty, nalloc |-> n]
  ELSE [type |-> ParameterOfConstraint(n + 1, index), nalloc |-> n + 1]

\* Mutant: a failed parameter assignment is reported as a failure.
addOverloadStrict(k, base, method, nargs) ==
  IF ~DefnTable[method].okConv THEN [ok |-> FALSE, k |-> k]
  ELSE IF assignFromAST(DefnTable[method].ftype, nargs)
       THEN [ok |-> TRUE,
             k |-> [k EXCEPT !.call.cands =
                      Append(@, CallCandidate(base, method, DefnTable[method].ftype))]]
       ELSE [ok |-> FALSE, k |-> k]

\* ExprAnalyzer::addOverload(call, baseExpr, method, const ASTNodeList &).
addOverload(k, base, method, nargs) ==
  IF ~DefnTable[method].okConv THEN [ok |-> FALSE, k |-> k]
  ELSE IF assignFromAST(DefnTable[method].ftype, nargs)
       THEN [ok |-> TRUE,
             k |-> [k EXCEPT !.call.cands =
                      Append(@, CallCandidate(base, method, DefnTable[method].ftype))]]
       ELSE [ok |-> TRUE, k |-> k]

\* ExprAnalyzer::addOverload(call, baseExpr, method, const ExprList &): a
\* failed check of the assignments is reported as a failure.
addOverloadArgs(k, base, method, nargs) ==
  IF ~DefnTable[method].okConv THEN [ok |-> FALSE, k |-> k]
  ELSE IF assignFromAST(DefnTable[method].ftype, nargs)
       THEN [ok |-> TRUE,
             k |-> [k EXCEPT !.call.cands =
                      Append(@, CallCandidate(base, method, DefnTable[method].ftype))]]
       ELSE [ok |-> FALSE, k |-> k]

\* ExprAnalyzer::addOverload(call, LValueExpr * fn, const FunctionType *, args).
addOverloadFnType(k, fn, ftype, nargs) ==
  IF assignFromAST(ftype, nargs)
  THEN [ok |-> TRUE,
        k |-> [k EXCEPT !.call.cands = Append(@, CallCandidate(fn, 0, ftype))]]
  ELSE [ok |-> TRUE, k |-> k]

\* Mutant: an erroneous argument is appended like any other.
RECURSIVE ReduceArgsKeepErrors(_, _, _)
ReduceArgsKeepErrors(in, k, i) ==
  IF i >= Len(in) THEN [ok |-> TRUE, why |-> "ok", k |-> k]
  ELSE ReduceArgsKeepErrors(in, [k EXCEPT !.call.kids = Append(@, in[i + 1])], i + 1)

\* ExprAnalyzer::reduceArgList(in, call): the loop from argument i on.
\* why: "ok", "nullParamType" (line 466) or "errorArg" (line 471).
RECURSIVE ReduceArgsFrom(_, _, _)
ReduceArgsFrom(in, k, i) ==
  IF i >= Len(in) THEN [ok |-> TRUE, why |-> "ok", k |-> k]
  ELSE LET pt == getMappedParameterType(k.call, i, k.nalloc)
           k1 == [k EXCEPT !.nalloc = pt.nalloc]
           ex == in[i + 1]
       IN IF pt.type = TNull THEN [ok |-> FALSE, why |-> "nullParamType", k |-> k1]
          ELSE IF isErrorResult(ex) THEN [ok |-> FALSE, why |-> "errorArg", k |-> k1]
          ELSE ReduceArgsFrom(in, [k1 EXCEPT !.call.kids = Append(@, ex)], i + 1)

reduceArgList(in, k) == ReduceArgsFrom(in, k, 0)

\* An argument expression of the given type (a reference to a variable).
ArgExpr(type) == LValueExpr(type, <<>>, TypeIsSingular(type))

\* What reduceExpr may yield for an AST argument.
ArgOutcomes == {ArgExpr(TyA), ArgExpr(TyB), ArgExpr(TyI), ArgExpr(TyP), ErrorVal}

\* Argument lists of up to n arguments.
ArgLists(n) == UNION {[1..m -> ArgOutcomes] : m \in 0..n}

---------------------------------------------------------------------------
(* BindingEnv and its chain of Substitutions (tart/Sema/BindingEnv.h).     *)
(* Substitution objects live in a heap, a sequence of records; a pointer   *)
(* to one is its index and NullSubst is the NULL pointer.  A BindingEnv is *)
(* its substitutions_ field, the head of the chain.                        *)

MaxSubst == 2

NullSubst == 0
NoSnapshot == -1
TyQ == [kind |-> "PatternVar", id |-> 2]
PatternVars == {TyP, TyQ}
BoundTypes == {TyS, TyT}
Variances == {"Covariant", "Contravariant", "Invariant"}

\* Type::isSubtype on the bound types: reflexive, and T derives from S.
IsSubtype(a, b) == a = b \/ (a = TyT /\ b = TyS)
meet(a, b) == IF IsSubtype(a, b) THEN a ELSE b
join(a, b) == IF IsSubtype(a, b) THEN b ELSE a

\* Substitution(left, right, prev)
Substitution(left, right, prev) ==
  [left |-> left, right |-> right, upperBound |-> right,
   lowerBound |-> right, prev |-> prev]

\* A constructor that takes the upper bound for the right side.
SubstitutionRightIsUpper(left, upper, lower, prev) ==
  [left |-> left, right |-> upper, upperBound |-> upper,
   lowerBound |-> lower, prev |-> prev]

\* Substitution(left, upper, lower, prev)
SubstitutionBounds(left, upper, lower, prev) ==
  [left |-> left, right |-> lower, upperBound |-> upper,
   lowerBound |-> lower, prev |-> prev]

\* A lookup that yields the oldest match of the chain instead.
RECURSIVE getSubstitutionForOldest(_, _, _)
getSubstitutionForOldest(h, s, left) ==
  IF s = NullSubst THEN NullSubst
  ELSE IF getSubstitutionForOldest(h, h[s].prev, left) # NullSubst
    THEN getSubstitutionForOldest(h, h[s].prev, left)
  ELSE IF h[s].left = left THEN s
  ELSE NullSubst

\* BindingEnv::getSubstitutionFor(left) of the environment whose chain
\* starts at s, in heap h.
RECURSIVE getSubstitutionFor(_, _, _)
getSubstitutionFor(h, s, left) ==
  IF s = NullSubst THEN NullSubst
  ELSE IF h[s].left = left THEN s
  ELSE getSubstitutionFor(h, h[s].prev, left)

\* BindingEnv::empty()
empty(s) == s = NullSubst

\* An addSubstitution that rewrites the variable's Substitution where
\* it has one (setRight, setUpperBound, setLowerBound).
addSubstitutionInPlace(h, s, left, right) ==
  IF getSubstitutionFor(h, s, left) = NullSubst
    THEN [heap |-> Append(h, Substitution(left, right, s)),
          head |-> Len(h) + 1]
    ELSE [heap |-> [h EXCEPT ![getSubstitutionFor(h, s, left)] =
                      Substitution(left, right, @.prev)],
          head |-> s]

\* BindingEnv::addSubstitution(left, right): a new Substitution in front of
\* the chain.  Yields the heap and the head of the chain afterwards.
addSubstitution(h, s, left, right) ==
  [heap |-> Append(h, Substitution(left, right, s)), head |-> Len(h) + 1]

\* BindingEnv::addSubstitution(left, upper, lower)
addSubstitutionBounds(h, s, left, upper, lower) ==
  [heap |-> Append(h, SubstitutionBounds(left, upper, lower, s)),
   head |-> Len(h) + 1]

\* BindingEnv::unify with a pattern variable that has the substitution at
\* index b already: the bounds move towards value, or unification fails.
unifyBound(h, s, pattern, value, variance, b) ==
  LET up == IsSubtype(h[b].right, value)
      down == IsSubtype(value, h[b].right)
      narrowed == addSubstitutionBounds(h, s, pattern,
                    meet(h[b].upperBound, value), h[b].lowerBound)
      widened == addSubstitutionBounds(h, s, pattern,
                    h[b].upperBound, join(h[b].lowerBound, value))
      failed == [heap |-> h, head |-> s]
  IN  CASE variance = "Invariant" ->
             [ok |-> value = h[b].right, env |-> failed]
        [] variance = "Covariant" ->
             IF up THEN [ok |-> TRUE, env |-> narrowed]
             ELSE IF down THEN [ok |-> TRUE, env |-> widened]
             ELSE [ok |-> FALSE, env |-> failed]
        [] OTHER ->
             IF down THEN [ok |-> TRUE, env |-> widened]
             ELSE IF up THEN [ok |-> TRUE, env |-> narrowed]
             ELSE [ok |-> FALSE, env |-> failed]

\* BindingEnv::unify(source, pattern, value, variance), pattern a
\* PatternVar and value a concrete type.
unifyLookup(h, s, pattern, value, variance, b) ==
  IF b = NullSubst
    THEN [ok |-> TRUE, env |-> addSubstitutionBounds(h, s, pattern, value, value)]
    ELSE unifyBound(h, s, pattern, value, variance, b)

unify(h, s, pattern, value, variance) ==
  unifyLookup(h, s, pattern, value, variance, getSubstitutionFor(h, s, pattern))

\* What an environment lets its caller observe of a variable: the
\* binding, the upper bound and the lower bound, or that there is none.
Binding(h, b) ==
  IF b = NullSubst THEN <<>>
  ELSE <<h[b].right, h[b].upperBound, h[b].lowerBound>>

Bindings(h, s) ==
  [v \in PatternVars |-> Binding(h, getSubstitutionFor(h, s, v))]

NoEnv == [v \in PatternVars |-> <<>>]

---------------------------------------------------------------------------
(* SpecCall: one CallExpr, from its construction through the gathering of  *)
(* overloads, argument reduction, result-type reduction and culling.       *)

\* The values of the variables a specification does not use.
NoOp == [name |-> "none"]
EnvIdle ==
  /\ heap = <<>>
  /\ env = NullSubst
  /\ copy = NullSubst
  /\ saved = NoSnapshot
  /\ seen = NoEnv
NoRegistry == <<>>
ScopeIdle == scopes = <<>>
GenIdle == ir = <<>> /\ gval = "none"
BltIdle == registry = NoRegistry /\ binit = FALSE
GCIdle ==
  /\ initialized = FALSE
  /\ allocList = <<>>
  /\ marked = {}
  /\ freed = <<>>
  /\ callbacks = <<>>
  /\ called = <<>>
  /\ total = 0
  /\ reclaimed = 0
  /\ message = <<>>
RestIdle == ScopeIdle /\ GenIdle /\ BltIdle /\ GCIdle

IdleExpr == ErrorVal
IdleCall == CallExpr(<<>>)
CallIdle ==
  /\ cx = IdleCall
  /\ nast = 0
  /\ nalloc = 0
  /\ expr = IdleExpr
  /\ pc = "idle"
  /\ ctors = InitialCtors
  /\ result = "none"
  /\ diags = <<>>

\* tdef->asExpr(): the callee expression of a constructor call.
TypeLiteralExpr(type) == Node("TypeLiteral", type, <<>>, TRUE)

\* The methods and function-typed variables offered as overloads.
CxMethods == {1, 2, 3, 6, 7, 11}
CxVariables == {12}

CxView == [call |-> cx, diags |-> <<>>, nalloc |-> nalloc, ctors |-> ctors]

InitCall ==
  /\ cx \in {CallExpr(<<>>), CallExpr(<<TypeLiteralExpr(TyT)>>)}
  /\ nast \in 0..MaxArgs
  /\ nalloc = 0
  /\ expr = IdleExpr
  /\ pc = "idle"
  /\ op = NoOp
  /\ ctors = InitialCtors
  /\ result = "none"
  /\ diags = <<>>
  /\ EnvIdle
  /\ RestIdle

\* addOverload for a method, before the arguments are reduced.
CxAddOverload ==
  \E m \in CxMethods, base \in {"NULL", "new"} :
    /\ cx.kids = <<>>
    /\ Len(cx.cands) < MaxCands
    /\ (base = "new") = isCtor(ctors, m)
    /\ cx' = addOverload(CxView, base, m, nast).k.call
    /\ UNCHANGED <<nast, nalloc, expr, pc, op, ctors, result, diags, envVars, restVars>>

\* addOverload for a variable of function type.
CxAddOverloadFnType ==
  \E v \in CxVariables :
    /\ cx.kids = <<>>
    /\ Len(cx.cands) < MaxCands
    /\ cx' = addOverloadFnType(CxView, "lv", DefnTable[v].ftype, nast).k.call
    /\ UNCHANGED <<nast, nalloc, expr, pc, op, ctors, result, diags, envVars, restVars>>

\* reduceArgList over the call's AST arguments.
CxReduceArgList ==
  \E in \in [1..nast -> ArgOutcomes] :
    /\ cx.kids = <<>>
    /\ nalloc <= MaxAlloc
    /\ LET r == reduceArgList(in, CxView) IN
         /\ cx' = r.k.call
         /\ nalloc' = r.k.nalloc
    /\ UNCHANGED <<nast, expr, pc, op, ctors, result, diags, envVars, restVars>>

\* call->setType(reduceReturnType(call)).
CxReduceReturnType ==
  /\ nalloc < MaxAlloc
  /\ LET r == reduceReturnType(ctors, cx, nalloc) IN
       /\ cx' = [cx EXCEPT !.type = r.type]
       /\ nalloc' = r.nalloc
  /\ UNCHANGED <<nast, expr, pc, op, ctors, result, diags, envVars, restVars>>

\* CallCandidate::cull(): the candidate is marked culled, for good.
CxCull ==
  \E i \in DOMAIN cx.cands :
    /\ ~cx.cands[i].culled
    /\ cx' = [cx EXCEPT !.cands[i].culled = TRUE]
    /\ UNCHANGED <<nast, nalloc, expr, pc, op, ctors, result, diags, envVars, restVars>>

NextCall ==
  \/ CxAddOverload
  \/ CxAddOverloadFnType
  \/ CxReduceArgList
  \/ CxReduceReturnType
  \/ CxCull

SpecCall == InitCall /\ [][NextCall]_vars

---------------------------------------------------------------------------
(* Properties of CallExpr's queries (SpecCall).                            *)

\* The positions of the candidates that are not culled.
NonCulled(call) == {k \in DOMAIN call.cands : ~call.cands[k].culled}

\* The call with the candidate at position p removed.
WithoutCandidate(call, p) ==
  [call EXCEPT !.cands =
     [j \in 1..(Len(call.cands) - 1) |->
        IF j < p THEN call.cands[j] ELSE call.cands[j + 1]]]

\* C4: singularCandidate returns candidate c exactly when c is the only
\* candidate that is not culled, and NULL when none or several are not culled.
C4_SingularCandidate ==
  LET s == singularCandidate(cx)
      nc == NonCulled(cx)
  IN /\ \A k \in DOMAIN cx.cands : (s = k) <=> (nc = {k})
     /\ (Cardinality(nc) # 1 => s = 0)

\* C4 witness: two candidates, the first culled, and the second is returned.
C4_Witness ==
  /\ Len(cx.cands) = 2
  /\ cx.cands[1].culled
  /\ ~cx.cands[2].culled
  /\ singularCandidate(cx) = 2

\* C5 (the claim as stated): removing a culled candidate, at any position,
\* changes the result of none of singularParamType, singularResultType,
\* singularCandidate (the candidate returned), hasAnyCandidates and
\* CallExpr::isSingular.
C5_CulledCandidatesIgnored ==
  \A p \in DOMAIN cx.cands :
    cx.cands[p].culled =>
      LET without == WithoutCandidate(cx, p)
          sc == singularCandidate(cx)
          sw == singularCandidate(without)
      IN /\ \A i \in 0..(MaxArgs - 1) :
              singularParamType(without, i) = singularParamType(cx, i)
         /\ singularResultType(ctors, without) = singularResultType(ctors, cx)
         /\ (sc = 0) = (sw = 0)
         /\ (sc # 0 => without.cands[sw] = cx.cands[sc])
         /\ hasAnyCandidates(without) = hasAnyCandidates(cx)
         /\ ExprIsSingular(without) = ExprIsSingular(cx)

\* The result types the candidates that are not culled contribute.
ResultTypes(call) ==
  {candidateResult(ctors, call.cands[k]) : k \in NonCulled(call)}

\* C6: reduceReturnType returns the common result type when the candidates
\* that are not culled all have the same result type, and otherwise (they
\* disagree, or there is none) a ResultOfConstraint allocated by this very
\* call; it never returns NULL.
C6_ReduceReturnType ==
  LET r == reduceReturnType(ctors, cx, nalloc)
      rs == ResultTypes(cx)
  IN /\ r.type # TNull
     /\ IF Cardinality(rs) = 1
        THEN r.type \in rs /\ r.nalloc = nalloc
        ELSE /\ r.type = ResultOfConstraint(r.nalloc)
             /\ r.nalloc = nalloc + 1

\* C6 witness: a call whose type was reduced from two candidates, neither
\* culled, of different methods and the same result type.
C6_Witness ==
  /\ Len(cx.cands) = 2
  /\ NonCulled(cx) = {1, 2}
  /\ cx.cands[1].method # cx.cands[2].method
  /\ Cardinality(ResultTypes(cx)) = 1
  /\ cx.type \in ResultTypes(cx)

\* C7: in singularResultType a constructor candidate contributes the type
\* of its self parameter, never its declared return type, and any other
\* candidate (a static create factory, a function-typed variable) its
\* function's result type.
C7_ConstructorResultType ==
  \A k \in DOMAIN cx.cands :
    NonCulled(cx) = {k} =>
      LET cc == cx.cands[k]
          ty == singularResultType(ctors, cx)
      IN IF cc.method # 0 /\ cc.method \in ctors
         THEN ty = cc.ftype.self /\ ty # cc.ftype.ret
         ELSE ty = cc.ftype.ret

\* C7 witness: the only candidate not culled is a constructor with a void
\* return type, and the call's type was reduced to the receiver type.
C7_Witness ==
  \E k \in DOMAIN cx.cands :
    /\ NonCulled(cx) = {k}
    /\ cx.cands[k].method \in ctors
    /\ cx.cands[k].ftype.ret = TyVoid
    /\ cx.type = cx.cands[k].ftype.self

\* The types the candidates that are not culled give parameter i.
ParamTypes(call, i) == {paramType(call.cands[k], i) : k \in NonCulled(call)}

\* C8: getMappedParameterType returns the common type of parameter i when
\* the candidates that are not culled agree on it, and otherwise a
\* ParameterOfConstraint for i allocated by this very call; it never
\* returns NULL, and reduceArgList never fails for want of a parameter type.
C8_MappedParameterType ==
  /\ \A i \in 0..(nast - 1) :
       LET r == getMappedParameterType(cx, i, nalloc)
           ps == ParamTypes(cx, i)
       IN /\ r.type # TNull
          /\ IF Cardinality(ps) = 1
             THEN r.type \in ps /\ r.nalloc = nalloc
             ELSE /\ r.type = ParameterOfConstraint(r.nalloc, i)
                  /\ r.nalloc = nalloc + 1
  /\ \A in \in [1..nast -> ArgOutcomes] :
       reduceArgList(in, [CxView EXCEPT !.call.kids = <<>>]).why # "nullParamType"

\* C8 witness: the arguments of a call were reduced while its two
\* candidates disagreed on the first parameter's type.
C8_Witness ==
  /\ nast >= 1
  /\ Len(cx.kids) = nast
  /\ NonCulled(cx) = {1, 2}
  /\ Cardinality(ParamTypes(cx, 0)) = 2
  /\ nalloc >= 1

---------------------------------------------------------------------------
(* SpecExpr: expression trees, built bottom-up the way the analyzer builds *)
(* them: each step wraps the tree built so far in one more node.           *)

RECURSIVE Depth(_)
Depth(e) ==
  IF e.kids = <<>> THEN 0
  ELSE 1 + (CHOOSE d \in {Depth(e.kids[i]) : i \in DOMAIN e.kids} :
              \A i \in DOMAIN e.kids : Depth(e.kids[i]) <= d)

ExprTypes == {TyA, TyP}
Leaves == {NewExpr(t) : t \in ExprTypes}

\* The overloads a call in a tree is built from: one or two of these.
ExMethods == {6, 11}
ExVariables == {12}

InitExpr ==
  /\ expr \in Leaves
  /\ cx = IdleCall
  /\ nast = 0
  /\ nalloc = 0
  /\ pc = "idle"
  /\ op = NoOp
  /\ ctors = InitialCtors
  /\ result = "none"
  /\ diags = <<>>
  /\ EnvIdle
  /\ RestIdle

Wrap(e) ==
  /\ Depth(expr) < MaxDepth
  /\ expr' = e
  /\ UNCHANGED <<cx, nast, nalloc, pc, op, ctors, result, diags, envVars, restVars>>

ExUnary == \E t \in ExprTypes : Wrap(UnaryExpr(t, expr))

ExBinary ==
  \E t \in ExprTypes, other \in Leaves :
    \/ Wrap(BinaryExpr(t, expr, other))
    \/ Wrap(BinaryExpr(t, other, expr))

\* LValueExpr(loc, base, value): the node's type is the value's type.
ExLValue == \E t \in ExprTypes : Wrap(LValueExpr(t, <<expr>>, TypeIsSingular(t)))

\* InitVarExpr(loc, v, expr): the node's type is the variable's type.
ExInitVar == \E t \in ExprTypes : Wrap(InitVarExpr(t, expr, TypeIsSingular(t)))

ExBoundMethod ==
  \E t \in ExprTypes : Wrap(BoundMethodExpr(t, <<expr>>, TypeIsSingular(t)))

ExFnCall ==
  \E t \in ExprTypes, rest \in {<<>>} \cup {<<l>> : l \in Leaves} :
    Wrap(FnCallExpr(t, <<expr>> \o rest, TypeIsSingular(t)))

\* InstanceOfExpr(loc, value, toType): the node's type is bool.
ExInstanceOf == \E toTypeSingular \in BOOLEAN : Wrap(InstanceOfExpr(expr, toTypeSingular))

\* A call of one argument (the tree built so far), as callName builds it:
\* the overloads are added, the argument is reduced, the type is set.
ExCall ==
  \E m \in ExMethods, more \in {0} \cup ExMethods \cup ExVariables :
    LET k0 == [call |-> CallExpr(<<>>), diags |-> <<>>, nalloc |-> 0, ctors |-> ctors]
        k1 == addOverload(k0, "NULL", m, 1).k
        k2 == IF more = 0 THEN k1
              ELSE IF more \in ExVariables
                   THEN addOverloadFnType(k1, "lv", DefnTable[more].ftype, 1).k
                   ELSE addOverload(k1, "NULL", more, 1).k
        k3 == reduceArgList(<<expr>>, k2).k
    IN Wrap([k3.call EXCEPT !.type = reduceReturnType(ctors, k3.call, k3.nalloc).type])

NextExpr ==
  \/ ExUnary
  \/ ExBinary
  \/ ExLValue
  \/ ExInitVar
  \/ ExBoundMethod
  \/ ExFnCall
  \/ ExInstanceOf
  \/ ExCall

SpecExpr == InitExpr /\ [][NextExpr]_vars

---------------------------------------------------------------------------
(* Properties of the expression nodes' isSingular (SpecExpr).              *)

\* The nodes of a tree: the root and the nodes of its children.
RECURSIVE Nodes(_)
Nodes(e) == {e} \cup UNION {Nodes(e.kids[i]) : i \in DOMAIN e.kids}

KidsAreSingular(e) == \A i \in DOMAIN e.kids : ExprIsSingular(e.kids[i])

ClaimedKinds ==
  {"Unary", "Binary", "LValue", "Call", "FnCall", "New", "InstanceOf",
   "InitVar", "BoundMethod"}

\* C9 (the claim as stated): every expression node is singular exactly
\* when its own type is singular and each of its children is singular (the
\* type an instance-of node tests for is counted among its children).
C9_SingularIffTypeAndChildren ==
  \A e \in Nodes(expr) :
    e.kind \in ClaimedKinds =>
      (ExprIsSingular(e) <=>
         /\ TypeIsSingular(e.type)
         /\ KidsAreSingular(e)
         /\ (e.kind = "InstanceOf" => e.flag))

\* C9 (amended): a singular node has only singular children, whatever its
\* kind; a tree of unary, binary and new nodes is singular exactly when no
\* node in it has a non-singular type; a call node is singular exactly when
\* its arguments are singular and its candidate list holds one candidate,
\* itself singular (or none, with a singular callee expression), whatever
\* the call's own type; an instance-of node is singular exactly when its
\* value and the type tested for are.
C9_SingularAmended ==
  \A e \in Nodes(expr) :
    /\ ExprIsSingular(e) => KidsAreSingular(e)
    /\ (\A n \in Nodes(e) : n.kind \in {"Unary", "Binary", "New"}) =>
         (ExprIsSingular(e) <=> \A n \in Nodes(e) : TypeIsSingular(n.type))
    /\ e.kind = "Call" =>
         (ExprIsSingular(e) <=>
            /\ KidsAreSingular(e)
            /\ \/ Len(e.cands) = 1 /\ CandidateIsSingular(e.cands[1])
               \/ e.cands = <<>> /\ e.fn # <<>> /\ ExprIsSingular(e.fn[1]))
    /\ e.kind = "InstanceOf" => (ExprIsSingular(e) <=> (KidsAreSingular(e) /\ e.flag))

\* C9 witness: a call node with two candidates, a singular type and a
\* singular argument (itself a unary node) that is not singular.
C9_Witness ==
  /\ expr.kind = "Call"
  /\ Len(expr.cands) = 2
  /\ TypeIsSingular(expr.type)
  /\ expr.kids[1].kind = "Unary"
  /\ KidsAreSingular(expr)
  /\ ~ExprIsSingular(expr)

---------------------------------------------------------------------------
(* Scopes and lookups.  A scope is the sequence of its members' ids, in    *)
(* declaration order.                                                      *)

RECURSIVE SortedSeq(_)
SortedSeq(X) ==
  IF X = {} THEN <<>>
  ELSE LET m == CHOOSE x \in X : \A y \in X : x <= y
       IN <<m>> \o SortedSeq(X \ {m})

\* The scopes of at most n members drawn from the definitions S.
Scopes(S, n) == {SortedSeq(X) : X \in {Y \in SUBSET S : Cardinality(Y) <= n}}

Named(scope, name) == SelectSeq(scope, LAMBDA d : DefnTable[d].name = name)

\* Scope::lookupMember(ident, defs, inherit) on a class's member scope: the
\* members of that name, then (inherit) those of the superclass.
lookupMember(scope, super, name, inherit) ==
  Named(scope, name) \o (IF inherit THEN Named(super, name) ELSE <<>>)

\* tdef->typeValue().
TypeValue(tdef) == IF DefnTable[tdef].name = "TT" THEN TyTT ELSE TyT

\* TypeDefn::isTemplate().
isTemplate(tdef) == DefnTable[tdef].name = "TT"

\* argType->typeDefn()->definingScope(): the classes A and B are defined
\* in the same scope (adl); a primitive type has no TypeDefn.
DefiningScope(type, adl) == IF type \in {TyA, TyB} THEN <<adl>> ELSE <<>>

\* lookupByArgType, first loop: the definitions found under the name in the
\* defining scope of each argument type not searched before.
RECURSIVE ArgTypeDefns(_, _, _, _, _)
ArgTypeDefns(args, i, searched, name, adl) ==
  IF i > Len(args) THEN <<>>
  ELSE LET ty == args[i].type IN
       IF ty # TNull /\ TypeIsSingular(ty) /\ ty \notin searched
       THEN (IF DefiningScope(ty, adl) # <<>>
             THEN lookupMember(DefiningScope(ty, adl)[1], <<>>, name, TRUE)
             ELSE <<>>)
            \o ArgTypeDefns(args, i + 1, searched \cup {ty}, name, adl)
       ELSE ArgTypeDefns(args, i + 1, searched, name, adl)

\* Mutant: a function is added whether or not it was found before.
RECURSIVE AddFoundAgain(_, _, _, _, _)
AddFoundAgain(k, defns, i, found, nargs) ==
  IF i > Len(defns) THEN k
  ELSE LET f == defns[i] IN
       IF /\ DefnTable[f].kind = "fn"
          /\ DefnTable[f].storage \in {"Static", "Global"}
       THEN AddFoundAgain(addOverload(k, "NULL", f, nargs).k, defns, i + 1,
                          found \cup {f}, nargs)
       ELSE AddFoundAgain(k, defns, i + 1, found, nargs)

\* lookupByArgType, last loop: each static or global function not found
\* before becomes an overload, with a NULL base.
RECURSIVE AddFound(_, _, _, _, _)
AddFound(k, defns, i, found, nargs) ==
  IF i > Len(defns) THEN k
  ELSE LET f == defns[i] IN
       IF /\ DefnTable[f].kind = "fn"
          /\ DefnTable[f].storage \in {"Static", "Global"}
          /\ f \notin found
       THEN AddFound(addOverload(k, "NULL", f, nargs).k, defns, i + 1,
                     found \cup {f}, nargs)
       ELSE AddFound(k, defns, i + 1, found, nargs)

\* ExprAnalyzer::lookupByArgType(call, name, args).
lookupByArgType(k, name, nargs, adl) ==
  AddFound(k, ArgTypeDefns(k.call.kids, 1, {}, name, adl), 1,
           {k.call.cands[c].method : c \in DOMAIN k.call.cands}, nargs)

\* Emit a diagnostic.
Diag(k, msg) == [k EXCEPT !.diags = Append(@, msg)]

\* Add each definition of a list as an overload, in order.
RECURSIVE AddOverloads(_, _, _, _, _)
AddOverloads(k, base, methods, i, nargs) ==
  IF i > Len(methods) THEN k
  ELSE AddOverloads(addOverload(k, base, methods[i], nargs).k, base, methods,
                    i + 1, nargs)

\* callConstructor, template class: each constructor analyzed for type
\* comparison is marked Ctor and added on a NewExpr.
RECURSIVE AddTemplateCtors(_, _, _, _)
AddTemplateCtors(k, methods, i, nargs) ==
  IF i > Len(methods) THEN k
  ELSE LET cons == methods[i] IN
       IF DefnTable[cons].okCmp
       THEN AddTemplateCtors(
              addOverload([k EXCEPT !.ctors = @ \cup {cons}], "new", cons, nargs).k,
              methods, i + 1, nargs)
       ELSE AddTemplateCtors(k, methods, i + 1, nargs)

\* callConstructor: the static create methods (analyzed for type
\* comparison, for a template class) are added with a NULL base.
RECURSIVE AddCreates(_, _, _, _, _)
AddCreates(k, methods, i, nargs, analyze) ==
  IF i > Len(methods) THEN k
  ELSE LET create == methods[i] IN
       IF DefnTable[create].storage = "Static"
          /\ (analyze => DefnTable[create].okCmp)
       THEN AddCreates(addOverload(k, "NULL", create, nargs).k, methods, i + 1,
                       nargs, analyze)
       ELSE AddCreates(k, methods, i + 1, nargs, analyze)

---------------------------------------------------------------------------
(* The call drivers of ExprAnalyzer.  Each yields what it returns (ret:    *)
(* "call", "ErrorVal", "NULL" for a null pointer, "callee" for the callee  *)
(* expression handed in, "fatal" when diag.fatal or DFAIL ended the        *)
(* compilation) and the analyzer's view k afterwards.                      *)

Return(ret, k) == [ret |-> ret, k |-> k]

\* Mutant: the call is returned with the type it was constructed with.
SetTypeSkipped(k, r) == Return("call", [k EXCEPT !.nalloc = r.nalloc])

\* The tail shared by the drivers: call->setType(reduceReturnType(call)).
SetType(k, r) ==
  Return("call", [k EXCEPT !.call.type = r.type, !.nalloc = r.nalloc])

ReturnCall(k) == SetType(k, reduceReturnType(k.ctors, k.call, k.nalloc))

\* The tail shared by the drivers: r is what reduceArgList yielded
\* (if (!reduceArgList(args, call)) return &Expr::ErrorVal; ...).
ReduceAndReturn(r) ==
  IF ~r.ok THEN Return("ErrorVal", r.k) ELSE ReturnCall(r.k)

\* Mutant: the create factories are searched before the constructors.
ctorSearchCreateFirst(own, inh) ==
  IF lookupMember(own, inh, "create", FALSE) # <<>>
  THEN [step |-> "create", methods |-> lookupMember(own, inh, "create", FALSE)]
  ELSE IF lookupMember(own, inh, "construct", FALSE) # <<>>
  THEN [step |-> "construct", methods |-> lookupMember(own, inh, "construct", FALSE)]
  ELSE IF lookupMember(own, inh, "construct", TRUE) # <<>>
  THEN [step |-> "inherited", methods |-> lookupMember(own, inh, "construct", TRUE)]
  ELSE [step |-> "none", methods |-> <<>>]

\* callConstructor, non-template class: the first lookup that finds
\* anything decides the methods tried (lines 360, 371, 381, 392).
ctorSearch(own, inh) ==
  IF lookupMember(own, inh, "construct", FALSE) # <<>>
  THEN [step |-> "construct", methods |-> lookupMember(own, inh, "construct", FALSE)]
  ELSE IF lookupMember(own, inh, "create", FALSE) # <<>>
  THEN [step |-> "create", methods |-> lookupMember(own, inh, "create", FALSE)]
  ELSE IF lookupMember(own, inh, "construct", TRUE) # <<>>
  THEN [step |-> "inherited", methods |-> lookupMember(own, inh, "construct", TRUE)]
  ELSE [step |-> "none", methods |-> <<>>]

\* callConstructor, template class (lookupTemplateMember, lines 328, 342).
templateCtorSearch(own) ==
  IF Named(own, "construct") # <<>>
  THEN [step |-> "construct", methods |-> Named(own, "construct")]
  ELSE IF Named(own, "create") # <<>>
  THEN [step |-> "create", methods |-> Named(own, "create")]
  ELSE [step |-> "none", methods |-> <<>>]

\* callConstructor, the lookups for the class tdef.
ctorLookup(tdef, world) ==
  IF isTemplate(tdef) THEN templateCtorSearch(world.own)
  ELSE ctorSearch(world.own, world.inh)

\* callConstructor, the gathering of the overloads: s is what the lookups
\* found, n the number of arguments.
ctorGather(k, tdef, s, n) ==
  IF isTemplate(tdef)
  THEN CASE s.step = "construct" -> AddTemplateCtors(k, s.methods, 1, n)
         [] s.step = "create" -> AddCreates(k, s.methods, 1, n, TRUE)
         [] OTHER -> k
  ELSE CASE s.step = "construct" -> AddOverloads(k, "new", s.methods, 1, n)
         [] s.step = "create" -> AddCreates(k, s.methods, 1, n, FALSE)
         [] s.step = "inherited" -> AddOverloads(k, "new", s.methods, 1, n)
         [] OTHER -> k

\* callConstructor once the overloads are gathered (lines 356, 394-412).
ctorFinish(k2, tdef, s, args) ==
  IF s.step = "none"
  THEN IF isTemplate(tdef)
       THEN Return("fatal", Diag(k2, "No constructors found"))
       ELSE Return("ErrorVal", Diag(k2, "No constructors found"))
  ELSE IF ~hasAnyCandidates(k2.call)
  THEN Return("ErrorVal", Diag(k2, "No constructor found matching input arguments"))
  ELSE ReduceAndReturn(reduceArgList(args, k2))

\* callConstructor with the lookups done.
ctorRun(k1, tdef, s, args) ==
  ctorFinish(ctorGather(k1, tdef, s, Len(args)), tdef, s, args)

\* ExprAnalyzer::callConstructor(loc, tdef, args).
callConstructor(k0, tdef, args, world) ==
  IF ~world.typeOk THEN Return("ErrorVal", k0)
  ELSE ctorRun([k0 EXCEPT !.call =
                  [CallExpr(<<TypeLiteralExpr(TypeValue(tdef))>>)
                     EXCEPT !.expected = TypeValue(tdef)]],
               tdef, ctorLookup(tdef, world), args)

\* getTypesFromExprs(loc, results, typeList): the lookup found types.
getTypesFromExprs(results) ==
  \A i \in DOMAIN results : DefnTable[results[i]].kind \in {"type", "typeNoDefn"}

\* callName, the loop over the lookup results (lines 95-134) from result i
\* on.  exit: "" when the loop ran to its end, otherwise what ended it.
RECURSIVE GatherResults(_, _, _, _, _)
GatherResults(k, success, results, i, nargs) ==
  IF i > Len(results) THEN [k |-> k, success |-> success, exit |-> ""]
  ELSE LET d == DefnTable[results[i]] IN
       CASE d.kind = "fn" ->
              LET r == addOverload(k, "base", results[i], nargs) IN
              GatherResults(r.k, success /\ r.ok, results, i + 1, nargs)
         [] d.kind \in {"varFn", "varBound", "varOther"} ->
              IF ~d.okCmp THEN [k |-> k, success |-> success, exit |-> "NULL"]
              ELSE IF d.kind = "varOther"
                   THEN GatherResults(k, success, results, i + 1, nargs)
                   ELSE LET r == addOverloadFnType(k, "lv", d.ftype, nargs) IN
                        GatherResults(r.k, success /\ r.ok, results, i + 1, nargs)
         [] OTHER ->
              [k |-> Diag(k, "is not callable"), success |-> success, exit |-> "fatal"]

\* callName after the lookup by argument type (lines 146-177).
callNameCheck(k, success, in) ==
  IF ~success THEN Return("ErrorVal", k)
  ELSE IF in.results = <<>>
  THEN Return("ErrorVal", Diag(k, "Undefined method"))
  ELSE IF k.call.cands = <<>>
  THEN Return("ErrorVal", Diag(k, "No matching method"))
  ELSE ReturnCall(k)

\* callName once the arguments are reduced (lines 136-144): r is what
\* reduceArgList yielded.
callNameADL(r, success, in) ==
  IF ~r.ok THEN Return("ErrorVal", r.k)
  ELSE IF in.nodeType = "Id" /\ in.args # <<>>
  THEN callNameCheck(lookupByArgType(r.k, "f", Len(in.args), in.adl), success, in)
  ELSE callNameCheck(r.k, success, in)

\* callName once the lookup results are gathered: g is what the loop
\* yielded.
callNameArgs(g, in) ==
  IF g.exit # "" THEN Return(g.exit, g.k)
  ELSE callNameADL(reduceArgList(in.args, g.k), g.success, in)

\* callName from the new CallExpr on (lines 93-177).
callNameValues(k0, in) ==
  callNameArgs(GatherResults([k0 EXCEPT !.call = CallExpr(<<>>)], TRUE,
                             in.results, 1, Len(in.args)), in)

\* ExprAnalyzer::callName(loc, callable, args, expected, isOptional).
callName(k0, in) ==
  IF in.results = <<>> /\ in.nodeType # "Id"
  THEN IF in.isOptional THEN Return("NULL", k0)
       ELSE Return("ErrorVal", Diag(k0, "Undefined method"))
  ELSE IF in.results # <<>> /\ getTypesFromExprs(in.results)
  THEN IF Len(in.results) > 1
       THEN Return("ErrorVal", Diag(k0, "Multiple definitions"))
       ELSE IF DefnTable[in.results[1]].kind = "typeNoDefn"
       THEN Return("ErrorVal", Diag(k0, "is not constructable"))
       ELSE callConstructor(k0, in.results[1], in.args, in.world)
  ELSE callNameValues(k0, in)

\* ExprAnalyzer::callExpr(loc, func, args, expected).
callExpr(k0, in) ==
  CASE in.func = "error" -> Return("callee", k0)
    [] in.func = "typeLiteral" -> callConstructor(k0, in.defn, in.args, in.world)
    [] in.func = "lvalue" ->
         IF DefnTable[in.defn].kind = "fn"
         THEN ReduceAndReturn(
                reduceArgList(in.args,
                              addOverload([k0 EXCEPT !.call = CallExpr(<<>>)],
                                          "base", in.defn, Len(in.args)).k))
         ELSE Return("ErrorVal",
                     Diag([k0 EXCEPT !.call = CallExpr(<<>>)],
                          "is not a callable expression"))
    [] OTHER -> Return("fatal", Diag(k0, "Unimplemented function type"))

\* callSuper, the loop over the superclass methods (lines 285-291).
RECURSIVE GatherSuper(_, _, _, _)
GatherSuper(k, methods, i, nargs) ==
  IF i > Len(methods) THEN [k |-> k, exit |-> ""]
  ELSE IF DefnTable[methods[i]].kind = "fn"
       THEN GatherSuper(addOverload(k, "self", methods[i], nargs).k, methods,
                        i + 1, nargs)
       ELSE [k |-> Diag(k, "is not callable"), exit |-> "fatal"]

\* callSuper once the superclass methods are gathered (lines 293-298).
callSuperArgs(g, args) ==
  IF g.exit # "" THEN Return(g.exit, g.k)
  ELSE ReduceAndReturn(reduceArgList(args, g.k))

\* callSuper once the superclass methods are looked up (lines 279-291).
callSuperMethods(k0, methods, args) ==
  IF methods = <<>>
  THEN Return("ErrorVal", Diag(k0, "Superclass method not found"))
  ELSE callSuperArgs(GatherSuper([k0 EXCEPT !.call = CallExpr(<<>>)], methods, 1,
                                 Len(args)), args)

\* ExprAnalyzer::callSuper(loc, args, expected).  current is
\* currentFunction_ (0: NULL), super the superclass's member scope (<<>>
\* wrapped: <<scope>>, or <<>> for a class with no superclass).
callSuper(k0, in) ==
  IF in.current = 0 \/ DefnTable[in.current].storage # "Instance"
  THEN Return("fatal", Diag(k0, "'super' only callable from instance methods"))
  ELSE IF in.super = <<>>
  THEN Return("fatal", Diag(k0, "has no super class"))
  ELSE callSuperMethods(k0, lookupMember(in.super[1], <<>>,
                                         DefnTable[in.current].name, TRUE),
                        in.args)

\* tryCoerciveCast, the loop over the coercers (lines 439-442): what
\* addOverload returns is not looked at.
RECURSIVE AddCoercers(_, _, _)
AddCoercers(k, coercers, i) ==
  IF i > Len(coercers) THEN k
  ELSE AddCoercers(addOverloadArgs(k, "NULL", coercers[i], Len(k.call.kids)).k,
                   coercers, i + 1)

\* Mutant: the call is returned whether or not it has a candidate.
coerceFinishAlways(k) == ReturnCall(k)

\* tryCoerciveCast once the coercers are added (lines 444-449).
coerceFinish(k) ==
  IF k.call.cands = <<>> THEN Return("NULL", k) ELSE ReturnCall(k)

\* ExprAnalyzer::tryCoerciveCast(in, toType).  coercers is
\* ctype->coercers(), typeOk what analyzeType(ctype, Task_PrepConversion)
\* answers.
tryCoerciveCast(k0, in) ==
  IF in.toType.kind # "Composite" THEN Return("NULL", k0)
  ELSE IF in.coercers = <<>> THEN Return("NULL", k0)
  ELSE IF ~in.typeOk THEN Return("NULL", k0)
  ELSE coerceFinish(
         AddCoercers([k0 EXCEPT !.call =
                        [CallExpr(<<>>) EXCEPT !.expected = in.toType,
                                               !.kids = <<in.in>>]],
                     in.coercers, 1))

---------------------------------------------------------------------------
(* Spec: one call analyzed by one of the drivers.  The call to analyze     *)
(* (what name lookup finds, the scopes of the program, what each AST       *)
(* argument reduces to) is drawn at the start and kept in op.              *)

\* What lookupName may find for a name that is not a type: functions,
\* variables, a module.
ValueResults == Scopes({6, 7, 8, 9, 12, 13, 14, 15, 23}, MaxScope)

\* What lookupName may find for the name of a type.
TypeResults == Scopes({16, 17, 18, 24}, MaxScope) \ {<<>>}

\* The scope the argument types are defined in, for ADL.
AdlScopes == Scopes({6, 8, 10, 11, 13, 22}, MaxScope)

\* The member scopes of a class and of its superclass, and whether the
\* class can be analyzed up to Task_PrepConstruction.
Worlds(tdef) ==
  IF isTemplate(tdef)
  THEN [own : Scopes({19, 20, 21}, MaxScope), inh : Scopes({5}, MaxScope),
        typeOk : BOOLEAN]
  ELSE [own : Scopes({1, 2, 3, 4}, MaxScope), inh : Scopes({5}, MaxScope),
        typeOk : BOOLEAN]

NoWorld == [own |-> <<>>, inh |-> <<>>, typeOk |-> TRUE]

\* The scopes a results list sends callConstructor to.
ResultWorlds(results) ==
  IF Len(results) = 1 /\ DefnTable[results[1]].kind = "type"
  THEN Worlds(results[1]) ELSE {NoWorld}

\* The member scope of the superclass S, for callSuper.
SuperScopes == Scopes({5, 25, 26, 27}, MaxScope)

K0 == [call |-> IdleCall, diags |-> <<>>, nalloc |-> 0, ctors |-> ctors]

\* The calls the analyzer may be asked to analyze.
NameRequest ==
  \E nodeType \in {"Id", "Member"}, results \in ValueResults \cup TypeResults,
     args \in ArgLists(MaxArgs) :
    \E adl \in (IF nodeType = "Id" /\ ~(results # <<>> /\ getTypesFromExprs(results))
                THEN AdlScopes ELSE {<<>>}),
       isOptional \in (IF nodeType # "Id" /\ results = <<>>
                       THEN BOOLEAN ELSE {FALSE}),
       world \in ResultWorlds(results) :
      op = [name |-> "callName", nodeType |-> nodeType, results |-> results,
            args |-> args, adl |-> adl, isOptional |-> isOptional,
            world |-> world]

ExprRequest ==
  \E func \in {"error", "typeLiteral", "lvalue", "other"}, args \in ArgLists(MaxArgs) :
    \E defn \in (CASE func = "typeLiteral" -> {16, 24}
                   [] func = "lvalue" -> {6, 8, 9, 10, 11, 13}
                   [] OTHER -> {0}) :
      \E world \in (IF func = "typeLiteral" THEN Worlds(defn) ELSE {NoWorld}) :
        op = [name |-> "callExpr", func |-> func, defn |-> defn, args |-> args,
              world |-> world]

SuperRequest ==
  \E current \in {0, 6, 8}, args \in ArgLists(MaxArgs),
     super \in {<<>>} \cup {<<sc>> : sc \in SuperScopes} :
    op = [name |-> "callSuper", current |-> current, super |-> super,
          args |-> args]

ConstructorRequest ==
  \E tdef \in {16, 24}, args \in ArgLists(MaxArgs) :
    \E world \in Worlds(tdef) :
      op = [name |-> "callConstructor", defn |-> tdef, args |-> args,
            world |-> world]

\* The coercers a composite type may list.
CoercerLists == Scopes({22, 28, 29, 30}, MaxScope)

CoerceRequest ==
  \E in \in {ArgExpr(TyA), ArgExpr(TyP)}, toType \in {TyI, TyT},
     typeOk \in BOOLEAN :
    \E coercers \in (IF toType = TyT THEN CoercerLists ELSE {<<>>}) :
      op = [name |-> "tryCoerciveCast", in |-> in, toType |-> toType,
            coercers |-> coercers, typeOk |-> typeOk, args |-> <<in>>]

Init ==
  /\ pc = "idle"
  /\ \/ NameRequest
     \/ ExprRequest
     \/ SuperRequest
     \/ ConstructorRequest
     \/ CoerceRequest
  /\ cx = IdleCall
  /\ nast = Len(op.args)
  /\ nalloc = 0
  /\ expr = IdleExpr
  /\ ctors = InitialCtors
  /\ result = "none"
  /\ diags = <<>>
  /\ EnvIdle
  /\ RestIdle

\* The driver has run: r is what it yields.
Ran(r) ==
  /\ pc' = "done"
  /\ cx' = r.k.call
  /\ nalloc' = r.k.nalloc
  /\ ctors' = r.k.ctors
  /\ result' = r.ret
  /\ diags' = r.k.diags
  /\ UNCHANGED <<op, nast, expr, envVars, restVars>>

CallName ==
  /\ pc = "idle"
  /\ op.name = "callName"
  /\ Ran(callName(K0, op))

CallExpr_ ==
  /\ pc = "idle"
  /\ op.name = "callExpr"
  /\ Ran(callExpr(K0, op))

CallSuper ==
  /\ pc = "idle"
  /\ op.name = "callSuper"
  /\ Ran(callSuper(K0, op))

CallConstructor ==
  /\ pc = "idle"
  /\ op.name = "callConstructor"
  /\ Ran(callConstructor(K0, op.defn, op.args, op.world))

TryCoerciveCast ==
  /\ pc = "idle"
  /\ op.name = "tryCoerciveCast"
  /\ Ran(tryCoerciveCast(K0, op))

Next ==
  \/ CallName
  \/ CallExpr_
  \/ CallSuper
  \/ CallConstructor
  \/ TryCoerciveCast

Spec == Init /\ [][Next]_vars

---------------------------------------------------------------------------
(* Properties of the call drivers (Spec).                                  *)

\* The methods of the call's candidates, in order.
CandidateMethods == [i \in DOMAIN cx.cands |-> cx.cands[i].method]

\* The AST arguments all reduced without error.
ArgsReduced == \A i \in DOMAIN op.args : ~isErrorResult(op.args[i])

\* callConstructor has run, entered directly, from callExpr on a type
\* literal or from callName on the name of a type.
CtorRan ==
  /\ pc = "done"
  /\ \/ op.name = "callConstructor"
     \/ op.name = "callExpr" /\ op.func = "typeLiteral"
     \/ /\ op.name = "callName"
        /\ Len(op.results) = 1
        /\ DefnTable[op.results[1]].kind = "type"

\* The type definition callConstructor was entered with.
CtorDefn == IF op.name = "callName" THEN op.results[1] ELSE op.defn

\* C1: in callConstructor for a non-template type, when the non-inherited
\* lookup of construct finds a member, every candidate of the call is one
\* of those construct members and no create member is a candidate, whether
\* or not any construct accepts the arguments.
C1_ConstructWins ==
  (/\ CtorRan
   /\ ~isTemplate(CtorDefn)
   /\ op.world.typeOk
   /\ lookupMember(op.world.own, op.world.inh, "construct", FALSE) # <<>>)
  => \A i \in DOMAIN cx.cands :
       /\ \E j \in DOMAIN op.world.own :
            /\ op.world.own[j] = cx.cands[i].method
            /\ DefnTable[op.world.own[j]].name = "construct"
       /\ DefnTable[cx.cands[i].method].name # "create"

\* C1 witness: the class has a construct that rejects the one argument and
\* a static create that would accept it; the call is left without
\* candidate and fails.
C1_Witness ==
  /\ CtorRan
  /\ ~isTemplate(CtorDefn)
  /\ op.world.typeOk
  /\ op.world.own = <<2, 3>>
  /\ op.args = <<ArgExpr(TyA)>>
  /\ cx.cands = <<>>
  /\ result = "ErrorVal"
  /\ diags = <<"No constructor found matching input arguments">>

\* An argument's type is defined in the scope adl, which holds a static or
\* global function f that accepts the arguments.
ADLFinds(m) ==
  /\ \E i \in DOMAIN op.args :
       /\ TypeIsSingular(op.args[i].type)
       /\ DefiningScope(op.args[i].type, op.adl) # <<>>
  /\ \E j \in DOMAIN op.adl : op.adl[j] = m
  /\ DefnTable[m].kind = "fn"
  /\ DefnTable[m].name = "f"
  /\ DefnTable[m].storage \in {"Static", "Global"}
  /\ DefnTable[m].okConv
  /\ assignFromAST(DefnTable[m].ftype, Len(op.args))

\* C2: for an unqualified call whose name the ordinary lookup does not
\* find, while the lookup by argument type finds a static or global
\* function of that name in the defining scope of an argument's type,
\* callName adds the function as a candidate and returns the call: it
\* neither reports "Undefined method" nor returns ErrorVal.
C2_ADLResolves ==
  \A m \in DOMAIN DefnTable :
    (/\ pc = "done"
     /\ op.name = "callName"
     /\ op.nodeType = "Id"
     /\ op.results = <<>>
     /\ ArgsReduced
     /\ ADLFinds(m))
    => /\ result = "call"
       /\ \E i \in DOMAIN cx.cands : cx.cands[i].method = m
       /\ \A d \in DOMAIN diags : diags[d] # "Undefined method"

\* C3: a call whose gathered overloads were all rejected is not returned
\* as a CallExpr: the analysis emits one diagnostic and returns ErrorVal,
\* on each of callName, callExpr, callSuper and callConstructor.
C3_AllRejectedIsError ==
  (pc = "done" /\ op.name # "none" /\ cx.cands = <<>> /\ result # "NULL"
     /\ result # "callee" /\ result # "fatal" /\ ArgsReduced)
  => (result = "ErrorVal" /\ Len(diags) <= 1)

\* The lookup results the loop of callName accepts as overloads.
Accepted ==
  SelectSeq(op.results,
            LAMBDA m : assignFromAST(DefnTable[m].ftype, Len(op.args)))

\* C10: an overload whose parameter assignment fails is dropped without
\* a diagnostic and without failing the call, one whose assignment
\* succeeds is appended at the end of the list: after callName on
\* functions (no lookup by argument type), the candidates are the results
\* that accept the arguments, in order; the call is returned when there is
\* one, and "No matching method" is the one diagnostic when there is none.
\* callName never emits "No matching method" with a candidate in the list.
C10_RejectedSilently ==
  (pc = "done" /\ op.name = "callName") =>
    /\ (/\ op.results # <<>>
        /\ \A i \in DOMAIN op.results :
             DefnTable[op.results[i]].kind = "fn" /\ DefnTable[op.results[i]].okConv
        /\ (op.nodeType = "Member" \/ op.args = <<>> \/ op.adl = <<>>))
       => /\ CandidateMethods = Accepted
          /\ (Accepted # <<>> /\ ArgsReduced) => (result = "call" /\ diags = <<>>)
          /\ (Accepted = <<>> /\ ArgsReduced)
               => (result = "ErrorVal" /\ diags = <<"No matching method">>)
    /\ (\E d \in DOMAIN diags : diags[d] = "No matching method") => cx.cands = <<>>

\* C10 witness: of the two functions found, the one without parameter is
\* rejected for the one argument and the other is the call's candidate.
C10_Witness ==
  /\ pc = "done"
  /\ op.name = "callName"
  /\ op.results = <<6, 8>>
  /\ Len(op.args) = 1
  /\ CandidateMethods = <<6>>
  /\ result = "call"
  /\ diags = <<>>

\* The definition m accepts the call's arguments as an overload.
AcceptsArgs(m) ==
  DefnTable[m].okConv /\ assignFromAST(DefnTable[m].ftype, Len(op.args))

\* C11: in callConstructor for a non-template type, the inherited construct
\* members are the last resort: when the class's own construct and create
\* members contribute no candidate (also when it declares create members
\* none of which is static), the inherited construct members are tried
\* before an error is reported, so one that accepts the arguments is a
\* candidate of the call.
C11_InheritedLastResort ==
  \A m \in DOMAIN DefnTable :
    (/\ CtorRan
     /\ ~isTemplate(CtorDefn)
     /\ op.world.typeOk
     /\ \A j \in DOMAIN op.world.own :
          ~(/\ DefnTable[op.world.own[j]].name = "construct"
            /\ AcceptsArgs(op.world.own[j]))
     /\ \A j \in DOMAIN op.world.own :
          ~(/\ DefnTable[op.world.own[j]].name = "create"
            /\ DefnTable[op.world.own[j]].storage = "Static"
            /\ AcceptsArgs(op.world.own[j]))
     /\ \E j \in DOMAIN op.world.inh : op.world.inh[j] = m
     /\ DefnTable[m].name = "construct"
     /\ AcceptsArgs(m))
    => \E i \in DOMAIN cx.cands : cx.cands[i].method = m

\* C12: for a template type, callConstructor searches in the same three
\* steps as for a non-template type (own construct, then create, then
\* inherited construct), and the method of every candidate it adds is
\* marked with the Ctor trait.
C12_TemplateSameOrder ==
  (CtorRan /\ isTemplate(CtorDefn) /\ op.world.typeOk) =>
    /\ \A i \in DOMAIN cx.cands : isCtor(ctors, cx.cands[i].method)
    /\ \A m \in DOMAIN DefnTable :
         (/\ Named(op.world.own, "construct") = <<>>
          /\ Named(op.world.own, "create") = <<>>
          /\ \E j \in DOMAIN op.world.inh : op.world.inh[j] = m
          /\ DefnTable[m].name = "construct"
          /\ AcceptsArgs(m))
         => /\ result # "fatal"
            /\ \E i \in DOMAIN cx.cands : cx.cands[i].method = m

\* callName went past the lookup of types, to the gathering of overloads.
NameValuesRan ==
  /\ pc = "done"
  /\ op.name = "callName"
  /\ (op.results # <<>> \/ op.nodeType = "Id")
  /\ ~(op.results # <<>> /\ getTypesFromExprs(op.results))

\* The candidates callName gathered from the lookup results, before
\* lookupByArgType.
GatheredBefore ==
  GatherResults([K0 EXCEPT !.call = CallExpr(<<>>)], TRUE, op.results, 1,
                Len(op.args)).k.call.cands

\* C13: the candidates lookupByArgType adds have a static or global method
\* and a null base; no method is added twice; no added method was the
\* method of a candidate gathered before; the candidates gathered before
\* are unchanged and come first.  Only callName on a plain identifier adds
\* candidates by argument type: the candidates of callExpr, callSuper and
\* callConstructor are those of the callee, the superclass and the class.
C13_LookupByArgType ==
  /\ NameValuesRan =>
       LET n == Len(GatheredBefore)
           Added == (n + 1)..Len(cx.cands)
       IN /\ Len(cx.cands) >= n
          /\ SubSeq(cx.cands, 1, n) = GatheredBefore
          /\ Added # {} => (op.nodeType = "Id" /\ op.args # <<>>)
          /\ \A i \in Added :
               /\ cx.cands[i].base = "NULL"
               /\ cx.cands[i].method # 0
               /\ DefnTable[cx.cands[i].method].storage \in {"Static", "Global"}
               /\ \E j \in DOMAIN op.adl : op.adl[j] = cx.cands[i].method
               /\ \A j \in DOMAIN cx.cands :
                    j # i => cx.cands[j].method # cx.cands[i].method
  /\ (pc = "done" /\ op.name = "callExpr" /\ op.func = "lvalue") =>
       \A i \in DOMAIN cx.cands : cx.cands[i].method = op.defn
  /\ (pc = "done" /\ op.name = "callSuper") =>
       \A i \in DOMAIN cx.cands : cx.cands[i].base = "self"
  /\ CtorRan =>
       \A i \in DOMAIN cx.cands :
         \E j \in DOMAIN (op.world.own \o op.world.inh) :
           (op.world.own \o op.world.inh)[j] = cx.cands[i].method

\* C13 witness: f(A) was found by name and is found again in the scope
\* that defines A, beside a global f(P) that was not found before: only
\* the latter is added, after the former.
C13_Witness ==
  /\ NameValuesRan
  /\ op.results = <<6>>
  /\ op.adl = <<6, 11>>
  /\ op.args = <<ArgExpr(TyA)>>
  /\ CandidateMethods = <<6, 11>>
  /\ cx.cands[1].base = "base"
  /\ cx.cands[2].base = "NULL"
  /\ result = "call"

\* The coercers of toType that accept one positional argument.
AcceptingCoercers ==
  SelectSeq(op.coercers,
            LAMBDA m : DefnTable[m].okConv /\ assignFromAST(DefnTable[m].ftype, 1))

\* C14: tryCoerciveCast returns null when toType is not a composite type,
\* has no coercer, cannot be prepared for conversion, or has no coercer
\* that accepts one positional argument; otherwise it returns a call whose
\* argument list is the expression cast alone, whose expected return type
\* is toType, whose candidates are coercers of toType (those that accept
\* the argument, in coercer order) and whose type is not null.
C14_TryCoerciveCast ==
  (pc = "done" /\ op.name = "tryCoerciveCast") =>
    /\ result \in {"NULL", "call"}
    /\ diags = <<>>
    /\ result = "NULL" <=>
         \/ op.toType.kind # "Composite"
         \/ op.coercers = <<>>
         \/ ~op.typeOk
         \/ AcceptingCoercers = <<>>
    /\ result = "call" =>
         /\ cx.kids = <<op.in>>
         /\ cx.expected = op.toType
         /\ CandidateMethods = AcceptingCoercers
         /\ \A i \in DOMAIN cx.cands : cx.cands[i].base = "NULL"
         /\ cx.type # TNull

\* C14 witness: of the two coercers listed, the first takes two arguments
\* and is passed over, the second becomes the only candidate.
C14_Witness ==
  /\ pc = "done"
  /\ op.name = "tryCoerciveCast"
  /\ op.coercers = <<28, 30>>
  /\ result = "call"
  /\ CandidateMethods = <<30>>
  /\ cx.type = TyT

\* The driver that ran got as far as reduceArgList: the gathering of the
\* overloads ended without a return.
ArgsReached ==
  /\ pc = "done"
  /\ \/ /\ NameValuesRan
        /\ GatherResults([K0 EXCEPT !.call = CallExpr(<<>>)], TRUE, op.results,
                         1, Len(op.args)).exit = ""
     \/ /\ op.name = "callExpr"
        /\ op.func = "lvalue"
        /\ DefnTable[op.defn].kind = "fn"
     \/ /\ op.name = "callSuper"
        /\ op.current # 0
        /\ DefnTable[op.current].storage = "Instance"
        /\ op.super # <<>>
        /\ Named(op.super[1], DefnTable[op.current].name) # <<>>
        /\ \A j \in DOMAIN op.super[1] :
             DefnTable[op.super[1][j]].name = DefnTable[op.current].name
               => DefnTable[op.super[1][j]].kind = "fn"
     \/ /\ CtorRan
        /\ op.world.typeOk
        /\ ctorLookup(CtorDefn, op.world).step # "none"
        /\ \E j \in DOMAIN ctorLookup(CtorDefn, op.world).methods :
             LET m == ctorLookup(CtorDefn, op.world).methods[j] IN
               /\ AcceptsArgs(m)
               /\ ctorLookup(CtorDefn, op.world).step = "create"
                    => DefnTable[m].storage = "Static"
               /\ isTemplate(CtorDefn) => DefnTable[m].okCmp

\* The position of the first argument that reduces to an error.
FirstError ==
  CHOOSE i \in DOMAIN op.args :
    /\ isErrorResult(op.args[i])
    /\ \A j \in 1..(i - 1) : ~isErrorResult(op.args[j])

\* C15: when the reduction of an argument yields an error value, the
\* driver returns ErrorVal and emits no diagnostic, and the arguments of
\* the call are those before the first erroneous one; callExpr handed an
\* erroneous callee returns it, without a diagnostic.  No driver returns a
\* call one of whose arguments is erroneous.
C15_ErrorArgument ==
  /\ (ArgsReached /\ ~ArgsReduced) =>
       /\ result = "ErrorVal"
       /\ diags = <<>>
       /\ cx.kids = SubSeq(op.args, 1, FirstError - 1)
  /\ (pc = "done" /\ op.name = "callExpr" /\ op.func = "error") =>
       (result = "callee" /\ diags = <<>>)
  /\ (pc = "done" /\ ~ArgsReduced) => result # "call"

\* C15 witness: callSuper with two arguments, the second erroneous: the
\* call holds the first argument only and ErrorVal is returned.
C15_Witness ==
  /\ ArgsReached
  /\ op.name = "callSuper"
  /\ Len(op.args) = 2
  /\ ~isErrorResult(op.args[1])
  /\ isErrorResult(op.args[2])
  /\ cx.kids = <<op.args[1]>>
  /\ result = "ErrorVal"
  /\ diags = <<>>

\* C16: callName returns a null pointer only when it is optional and a
\* qualified name has no lookup result; called with isOptional false it
\* returns ErrorVal on every failure path.
C16_NeverNull ==
  (pc = "done" /\ op.name = "callName" /\ result = "NULL") =>
    (op.isOptional /\ op.nodeType # "Id" /\ op.results = <<>>)

\* A driver constructed its CallExpr and worked on it.
CallCreated == pc = "done" /\ (cx.kids # <<>> \/ cx.cands # <<>>)

---------------------------------------------------------------------------
(* SpecEnv: one BindingEnv and one copy of it, under the operations of     *)
(* BindingEnv.h, with a caller that records the chain head and puts it     *)
(* back.                                                                   *)

InitEnv ==
  /\ cx = IdleCall
  /\ nast = 0
  /\ nalloc = 0
  /\ expr = IdleExpr
  /\ pc = "idle"
  /\ op = NoOp
  /\ ctors = InitialCtors
  /\ result = "none"
  /\ diags = <<>>
  /\ EnvIdle
  /\ RestIdle

Envs == {"env", "copy"}
HeadOf(which) == IF which = "env" THEN env ELSE copy

\* The environment `which' becomes r; o records the operation.
Installed(which, o, r) ==
  /\ heap' = r.heap
  /\ env' = IF which = "env" THEN r.head ELSE env
  /\ copy' = IF which = "copy" THEN r.head ELSE copy
  /\ op' = o
  /\ UNCHANGED <<saved, seen, callVars, restVars>>

AddSubstitution ==
  /\ Len(heap) < MaxSubst
  /\ \E which \in Envs, left \in PatternVars, right \in BoundTypes :
       Installed(which,
                 [name |-> "addSubstitution", on |-> which, left |-> left,
                  right |-> right],
                 addSubstitution(heap, HeadOf(which), left, right))

\* The bounds a caller passes are ordered: lower is a subtype of upper.
AddSubstitutionBounds ==
  /\ Len(heap) < MaxSubst
  /\ \E which \in Envs, left \in PatternVars, upper \in BoundTypes,
        lower \in BoundTypes :
       /\ IsSubtype(lower, upper)
       /\ Installed(which,
                    [name |-> "addSubstitutionBounds", on |-> which,
                     left |-> left, upper |-> upper, lower |-> lower],
                    addSubstitutionBounds(heap, HeadOf(which), left, upper,
                                          lower))

UnifyResult(which, pattern, value, variance, r) ==
  Installed(which,
            [name |-> "unify", on |-> which, pattern |-> pattern,
             value |-> value, variance |-> variance, ok |-> r.ok],
            r.env)

Unify ==
  /\ Len(heap) < MaxSubst
  /\ \E which \in Envs, pattern \in PatternVars, value \in BoundTypes,
        variance \in Variances :
       UnifyResult(which, pattern, value, variance,
                   unify(heap, HeadOf(which), pattern, value, variance))

\* BindingEnv::reset()
Reset ==
  /\ env' = NullSubst
  /\ op' = [name |-> "reset"]
  /\ UNCHANGED <<heap, copy, saved, seen, callVars, restVars>>

\* BindingEnv(const BindingEnv & env)
CopyEnv ==
  /\ copy' = env
  /\ op' = [name |-> "copy"]
  /\ UNCHANGED <<heap, env, saved, seen, callVars, restVars>>

\* h = env.substitutions()
Substitutions ==
  /\ saved' = env
  /\ seen' = Bindings(heap, env)
  /\ op' = [name |-> "substitutions"]
  /\ UNCHANGED <<heap, env, copy, callVars, restVars>>

\* env.setSubstitutions(h)
SetSubstitutions ==
  /\ saved # NoSnapshot
  /\ env' = saved
  /\ op' = [name |-> "setSubstitutions"]
  /\ UNCHANGED <<heap, copy, saved, seen, callVars, restVars>>

NextEnv ==
  \/ AddSubstitution
  \/ AddSubstitutionBounds
  \/ Unify
  \/ Reset
  \/ CopyEnv
  \/ Substitutions
  \/ SetSubstitutions

SpecEnv == InitEnv /\ [][NextEnv]_vars

---------------------------------------------------------------------------
(* Claims about BindingEnv and Substitution, for SpecEnv.                  *)

\* The step is a call of either addSubstitution overload on env.
AddedToEnv ==
  /\ op'.name \in {"addSubstitution", "addSubstitutionBounds"}
  /\ op'.on = "env"

\* What addSubstitution on the environment does to the lookups.
AddedIsFound ==
  AddedToEnv =>
    /\ getSubstitutionFor(heap', env', op'.left) = Len(heap')
    /\ Len(heap') = Len(heap) + 1
    /\ heap'[Len(heap')].left = op'.left
    /\ \A v \in PatternVars \ {op'.left} :
         getSubstitutionFor(heap', env', v) = getSubstitutionFor(heap, env, v)
    /\ ~empty(env')

\* What reset() does to the lookups.
ResetIsEmpty ==
  op'.name = "reset" =>
    /\ \A v \in PatternVars : getSubstitutionFor(heap', env', v) = NullSubst
    /\ empty(env')

\* C18: a new BindingEnv is empty and has no substitution for any
\* variable; after addSubstitution on the environment,
\* getSubstitutionFor(left) is the substitution just added, what it
\* returns for every other left side is what it returned before, and
\* empty() is false; after reset() it returns null for every left side
\* and empty() is true.  So after any sequence of these calls
\* getSubstitutionFor(left) is the most recently added substitution with
\* that left side, null when there is none, and empty() tells whether
\* one was added since construction or the last reset().
C18_MostRecentlyAdded ==
  /\ empty(env)
  /\ Bindings(heap, env) = NoEnv
  /\ [][AddedIsFound /\ ResetIsEmpty]_vars

\* C18 witness: addSubstitution put a second substitution for the same
\* variable, with another right side, in front of the environment's
\* chain, and getSubstitutionFor returns the new one.
C18_Witness ==
  /\ op.name = "addSubstitution" /\ op.on = "env"
  /\ env # NullSubst
  /\ heap[env].prev # NullSubst
  /\ heap[heap[env].prev].left = op.left
  /\ heap[heap[env].prev].right # op.right
  /\ getSubstitutionFor(heap, env, op.left) = env
  /\ heap[env].right = op.right

\* C19: whenever the environment's chain head is the head h a caller
\* recorded, in particular right after setSubstitutions(h), the binding,
\* the upper bound and the lower bound of every variable seen through the
\* environment are what they were when h was recorded, whatever unify and
\* addSubstitution did to the environment or to its copy in between.
C19_ChainPersistent ==
  (saved # NoSnapshot /\ env = saved) => Bindings(heap, env) = seen

\* C19 witness: the caller put back a recorded head, after a substitution
\* with another right side was added in front of it for the variable the
\* head binds.
C19_Witness ==
  /\ op.name = "setSubstitutions"
  /\ saved # NoSnapshot /\ saved # NullSubst
  /\ env = saved
  /\ \E i \in (saved + 1)..Len(heap) :
       /\ heap[i].prev = saved
       /\ heap[i].left = heap[saved].left
       /\ heap[i].right # heap[saved].right

\* The right side of a Substitution lies within its recorded bounds.
WithinBounds(n) ==
  IsSubtype(n.lowerBound, n.right) /\ IsSubtype(n.right, n.upperBound)

---------------------------------------------------------------------------
(* SpecScope: the scopes of tart/CFG/Scope.h.  A Scope object is a record  *)
(* in scopes; a pointer to it is its index and NullScope is NULL.  Three   *)
(* scopes exist from the start, a DelegatingScope is constructed later.    *)

MaxMembers == 2

NullScope == 0
MemberDefns == {6, 12}
MemberNames == {"f", "g"}

\* IterableScope(parent); LocalScope(parent)
IterableScope(parent) ==
  [kind |-> "Iterable", members |-> <<>>, parent |-> parent,
   delegate |-> NullScope]
LocalScope(parent) ==
  [kind |-> "Local", members |-> <<>>, parent |-> parent,
   delegate |-> NullScope]

\* Scope::parentScope()
parentScope(S, s) == S[s].parent

\* A constructor in which the assignment from s->parentScope() reaches
\* the member.
DelegatingScopeFromDelegate(S, s, p) ==
  [kind |-> "Delegating", members |-> <<>>, parent |-> parentScope(S, s),
   delegate |-> s]

\* DelegatingScope(s, p): delegate(s), parent(p); the body assigns
\* s->parentScope() to the parameter p, which nothing reads afterwards.
DelegatingScope(S, s, p) ==
  [kind |-> "Delegating", members |-> <<>>, parent |-> p, delegate |-> s]

\* IterableScope::lookupMember(ident, defs, inherit): whether the table
\* has members of that name, and what is appended to defs.
IterableLookupMember(S, s, name, inherit) ==
  [found |-> Named(S[s].members, name) # <<>>,
   defs |-> Named(S[s].members, name)]

\* A DelegatingScope that keeps a table of its own.
lookupMemberNoDelegate(S, s, name, inherit) ==
  IterableLookupMember(S, s, name, inherit)

\* Scope::lookupMember(ident, defs, inherit), by the dynamic type of s.
lookupMemberIn(S, s, name, inherit) ==
  IF S[s].kind = "Delegating"
    THEN IterableLookupMember(S, S[s].delegate, name, inherit)
    ELSE IterableLookupMember(S, s, name, inherit)

\* Scope::allowOverloads(): IterableScope overrides it to true, LocalScope
\* inherits that override, DelegatingScope asks its delegate.
allowOverloads(S, s) ==
  IF S[s].kind = "Delegating"
    THEN S[S[s].delegate].kind \in {"Iterable", "Local"}
    ELSE S[s].kind \in {"Iterable", "Local"}

\* Scope::getBaseExpr(): only DelegatingScope overrides it, to ask its
\* delegate; 0 is the NULL Expr.
getBaseExpr(S, s) == 0

\* The scope whose table addMember on s writes.
MemberTable(S, s) == IF S[s].kind = "Delegating" THEN S[s].delegate ELSE s

\* Scope::addMember(d), by the dynamic type of s.  A local scope takes
\* one definition per name.
addMember(S, s, d) ==
  IF /\ S[MemberTable(S, s)].kind = "Local"
     /\ Named(S[MemberTable(S, s)].members, DefnTable[d].name) # <<>>
    THEN S
    ELSE [S EXCEPT ![MemberTable(S, s)].members = Append(@, d)]

RECURSIVE CountMembers(_, _)
CountMembers(S, i) ==
  IF i > Len(S) THEN 0 ELSE Len(S[i].members) + CountMembers(S, i + 1)

PlainScopes == {1, 2, 3}
TheDelegating == Cardinality(PlainScopes) + 1

InitScope ==
  /\ CallIdle
  /\ op = NoOp
  /\ EnvIdle
  /\ GenIdle /\ BltIdle /\ GCIdle
  /\ scopes = <<IterableScope(NullScope), LocalScope(1),
                IterableScope(NullScope)>>

ScopeStep(o, S) ==
  /\ scopes' = S
  /\ op' = o
  /\ UNCHANGED <<callVars, envVars, genVars, bltVars, gcVars>>

NewDelegatingScope ==
  /\ Len(scopes) = 3
  /\ \E s \in PlainScopes, p \in {NullScope} \cup PlainScopes :
       ScopeStep([name |-> "DelegatingScope", s |-> s, p |-> p],
                 Append(scopes, DelegatingScope(scopes, s, p)))

SetDelegate ==
  /\ Len(scopes) = TheDelegating
  /\ \E s \in PlainScopes :
       ScopeStep([name |-> "setDelegate", s |-> s],
                 [scopes EXCEPT ![TheDelegating].delegate = s])

SetParentScope ==
  /\ Len(scopes) = TheDelegating
  /\ \E p \in {NullScope} \cup PlainScopes :
       ScopeStep([name |-> "setParentScope", s |-> TheDelegating, p |-> p],
                 [scopes EXCEPT ![TheDelegating].parent = p])

\* IterableScope::setParentScope(parent), on the third scope.
IterableSetParentScope ==
  \E p \in {NullScope, 1, 2} :
    ScopeStep([name |-> "setParentScope", s |-> 3, p |-> p],
              [scopes EXCEPT ![3].parent = p])

AddMember ==
  /\ CountMembers(scopes, 1) < MaxMembers
  /\ \E s \in 1..Len(scopes), d \in MemberDefns :
       ScopeStep([name |-> "addMember", s |-> s, d |-> d],
                 addMember(scopes, s, d))

NextScope ==
  \/ NewDelegatingScope
  \/ SetDelegate
  \/ SetParentScope
  \/ IterableSetParentScope
  \/ AddMember

SpecScope == InitScope /\ [][NextScope]_vars

---------------------------------------------------------------------------
(* Claims about scopes, for SpecScope.                                     *)

\* The delegating scope's parent changed in this step.
ParentChanged ==
  /\ Len(scopes) = TheDelegating
  /\ parentScope(scopes', TheDelegating) # parentScope(scopes, TheDelegating)

\* C21: the DelegatingScope constructed with (s, p) has parentScope() = p,
\* whatever the parent of s is, and afterwards its parentScope() changes
\* only in a setParentScope call on it (not in setDelegate, nor when the
\* delegate's parent changes).
C21_ParentIsGiven ==
  /\ [](op.name = "DelegatingScope" =>
          parentScope(scopes, TheDelegating) = op.p)
  /\ [][ParentChanged =>
          (op'.name = "setParentScope" /\ op'.s = TheDelegating)]_vars

\* C21 witness: a DelegatingScope was constructed with a parent other than
\* its delegate's parent, and reports the parent it was given.
C21_Witness ==
  /\ op.name = "DelegatingScope"
  /\ parentScope(scopes, op.s) # op.p
  /\ op.p # NullScope
  /\ parentScope(scopes, TheDelegating) = op.p

\* C22: through the delegating scope, lookupMember gives the same success
\* flag and the same definitions in the same order as on its delegate, for
\* every name and inherit flag; allowOverloads() and getBaseExpr() equal
\* the delegate's; and addMember through it does what addMember on the
\* delegate does.
C22_SharesMembers ==
  Len(scopes) = TheDelegating =>
    /\ \A name \in MemberNames, inherit \in BOOLEAN :
         lookupMemberIn(scopes, TheDelegating, name, inherit)
           = lookupMemberIn(scopes, scopes[TheDelegating].delegate, name,
                            inherit)
    /\ allowOverloads(scopes, TheDelegating)
         = allowOverloads(scopes, scopes[TheDelegating].delegate)
    /\ getBaseExpr(scopes, TheDelegating)
         = getBaseExpr(scopes, scopes[TheDelegating].delegate)
    /\ \A d \in MemberDefns :
         addMember(scopes, TheDelegating, d)
           = addMember(scopes, scopes[TheDelegating].delegate, d)

\* C22 witness: the second of two definitions named f was added through
\* the delegating scope, and a lookup through it finds both in the order
\* they were added.
C22_Witness ==
  /\ Len(scopes) = TheDelegating
  /\ op.name = "addMember" /\ op.s = TheDelegating
  /\ Len(scopes[scopes[TheDelegating].delegate].members) = 2
  /\ lookupMemberIn(scopes, TheDelegating, "f", FALSE).found
  /\ lookupMemberIn(scopes, TheDelegating, "f", FALSE).defs
       = scopes[scopes[TheDelegating].delegate].members
  /\ lookupMemberIn(scopes, TheDelegating, "f", FALSE).defs[2] = op.d
  /\ lookupMemberIn(scopes, TheDelegating, "f", FALSE).defs[1] # op.d

\* C23: allowOverloads() is false for every LocalScope and true for every
\* IterableScope.
C23_LocalNoOverloads ==
  \A s \in 1..Len(scopes) :
    /\ scopes[s].kind = "Local" => ~allowOverloads(scopes, s)
    /\ scopes[s].kind = "Iterable" => allowOverloads(scopes, s)

---------------------------------------------------------------------------
(* SpecGen: the cast and type-test generators of lib/Gen/CodeGenExpr.cpp.  *)
(* The IR builder is the sequence ir of the instructions it was asked to   *)
(* create; a Value is an argument, a constant, or the n-th instruction.    *)
(* The note of a GEP or ExtractValue on a union value names the field:     *)
(* "tag" is field 0, the type index, and "payload" is field 1.             *)

GenType(cls, name, super, members) ==
  [cls |-> cls, name |-> name, super |-> super, members |-> members]

GI32 == GenType("Primitive", "i32", "", <<>>)
GVoid == GenType("Primitive", "void", "", <<>>)
GObject == GenType("Class", "Object", "", <<>>)
GString == GenType("Class", "String", "Object", <<>>)
GFoo == GenType("Class", "Foo", "Object", <<>>)
GBar == GenType("Class", "Bar", "Foo", <<>>)
GIntf == GenType("Interface", "Intf", "", <<>>)
GEnum == GenType("Enum", "E", "i32", <<>>)
\* (i32 | String), (String | Foo), (void | String)
GUnionIS == GenType("Union", "i32|String", "", <<GI32, GString>>)
GUnionSF == GenType("Union", "String|Foo", "", <<GString, GFoo>>)
GUnionVS == GenType("Union", "void|String", "", <<GVoid, GString>>)

ScalarTypes == {GI32, GVoid, GObject, GString, GFoo, GBar, GIntf, GEnum}
UnionTypes == {GUnionIS, GUnionSF, GUnionVS}

TypeNamed(name) == CHOOSE t \in ScalarTypes : t.name = name

isVoidType(t) == t = GVoid
isReferenceType(t) == t.cls \in {"Class", "Interface"}
isCompositeType(t) == t.cls \in {"Class", "Interface"}

\* CompositeType::isSubclassOf, along the super chain; Bar implements Intf.
RECURSIVE isSubclassOf(_, _)
isSubclassOf(a, b) ==
  \/ a = b
  \/ (a = GBar /\ b = GIntf)
  \/ (a.super # "" /\ isSubclassOf(TypeNamed(a.super), b))

\* UnionType::numValueTypes, hasVoidType, getTypeIndex (-1: not a member).
numValueTypes(u) ==
  Cardinality({i \in 1..Len(u.members) :
                 ~isReferenceType(u.members[i]) /\ ~isVoidType(u.members[i])})
hasVoidType(u) == \E i \in 1..Len(u.members) : isVoidType(u.members[i])
getTypeIndex(u, t) ==
  IF \E i \in 1..Len(u.members) : u.members[i] = t
    THEN (CHOOSE i \in 1..Len(u.members) : u.members[i] = t) - 1
    ELSE -1

\* Values.
ArgValue == [k |-> "arg", n |-> 0]
NullValue == [k |-> "null", n |-> 0]
FalseValue == [k |-> "false", n |-> 0]
Aborted == [k |-> "abort", n |-> 0]
InstValue(n) == [k |-> "inst", n |-> n]

\* builder_.Create<opc>(arg, ...): the builder afterwards and the Value.
Create(b, opc, arg, note) ==
  [ir |-> Append(b, [opc |-> opc, arg |-> arg, note |-> note]),
   val |-> InstValue(Len(b) + 1)]
Gen(b, val) == [ir |-> b, val |-> val]

\* genCompositeTypeTest(val, fromType, toType)
genCompositeTypeTest3(g1, g2) ==
  Create(g2.ir, "Call", g2.val, "hasBase")
genCompositeTypeTest2(g1) ==
  genCompositeTypeTest3(g1, Create(Create(g1.ir, "GEP", g1.val, "0,0").ir,
                                   "Load", InstValue(Len(g1.ir) + 1), "tib"))
genCompositeTypeTest(b, val, fromType, toType) ==
  IF toType.cls \notin {"Class", "Interface"} THEN Gen(b, Aborted)
  ELSE genCompositeTypeTest2(Create(b, "BitCast", val, "Object*"))

\* genUnionTypeTest, tagged union: g is the builder and the type index
\* loaded or extracted from the value.
genUnionTagTest(g, unionType, toType) ==
  IF getTypeIndex(unionType, toType) < 0 THEN Gen(g.ir, FalseValue)
  ELSE Create(g.ir, "ICmpEQ", g.val, "isa")

\* genUnionTypeTest, pointer-only union: g is the builder and the pointer.
genUnionRefTest(g, toType) ==
  IF ~isCompositeType(toType) THEN Gen(g.ir, Aborted)
  ELSE genCompositeTypeTest(Create(g.ir, "BitCast", g.val, "embedded").ir,
                            InstValue(Len(g.ir) + 1), GObject, toType)

\* genUnionTypeTest(in, unionType, toType, valIsLVal)
genUnionTypeTest(b, in, unionType, toType, valIsLVal) ==
  IF numValueTypes(unionType) > 0 \/ hasVoidType(unionType)
    THEN genUnionTagTest(
           IF valIsLVal
             THEN Create(Create(b, "GEP", in, "tag").ir, "Load",
                         InstValue(Len(b) + 1), "tag")
             ELSE Create(b, "ExtractValue", in, "tag"),
           unionType, toType)
    ELSE genUnionRefTest(
           IF valIsLVal THEN Create(b, "Load", in, "") ELSE Gen(b, in),
           toType)

\* throwCondTypecastError(test), with no unwind target.
throwCondTypecastError(b, test) ==
  b \o << [opc |-> "CondBr", arg |-> test, note |-> "typecast_succ,typecast_fail"],
          [opc |-> "Call", arg |-> NullValue, note |-> "typecastError"],
          [opc |-> "Unreachable", arg |-> NullValue, note |-> ""] >>

\* genUnionCtorCast, tagged: the index is stored, then the value if any.
genUnionCtorTagged(b, value, index) ==
  IF index < 0 THEN Gen(b, Aborted)
  ELSE LET a == Create(b, "Alloca", NullValue, "union")
           g == Create(a.ir, "GEP", a.val, "tag")
           st == Create(g.ir, "Store", g.val, "index")
           p == Create(st.ir, "GEP", a.val, "payload")
           c == Create(p.ir, "BitCast", p.val, "field*")
           sv == Create(c.ir, "Store", c.val, "value")
       IN  Create(IF value = NullValue THEN st.ir ELSE sv.ir, "Load", a.val,
                  "union")

\* genUnionCtorCast(in): value is what genExpr(in->arg()) gave.
genUnionCtorCast(fromType, toType, argValue) ==
  IF ~isVoidType(fromType) /\ argValue = NullValue THEN Gen(<<>>, NullValue)
  ELSE IF numValueTypes(toType) > 0 \/ hasVoidType(toType)
    THEN genUnionCtorTagged(<<>>,
           IF isVoidType(fromType) THEN NullValue ELSE argValue,
           getTypeIndex(toType, fromType))
    ELSE Create(<<>>, "BitCast",
                IF isVoidType(fromType) THEN NullValue ELSE argValue,
                "union")

\* genUnionMemberCast, tagged: b is the builder after the type test.
genUnionPayload(b, var) ==
  LET p == Create(b, "GEP", var, "payload")
      c == Create(p.ir, "BitCast", p.val, "field*")
  IN  Create(c.ir, "Load", c.val, "payload")

\* genUnionMemberCast, pointer-only: the reference is loaded, then tested.
genUnionRef(b, var, toType, checked) ==
  LET c == Create(b, "BitCast", var, "embedded*")
      l == Create(c.ir, "Load", c.val, "ref")
      t == genCompositeTypeTest(l.ir, l.val, GObject, toType)
  IN  IF ~checked THEN l
      ELSE IF ~isCompositeType(toType) \/ t.val = Aborted
        THEN Gen(l.ir, Aborted)
      ELSE Gen(throwCondTypecastError(t.ir, t.val), l.val)

genUnionMemberTagged(b, var, fromType, toType, checked, t) ==
  IF ~checked THEN genUnionPayload(b, var)
  ELSE genUnionPayload(throwCondTypecastError(t.ir, t.val), var)

\* A member cast that takes the tagged path for value types only.
genUnionMemberVarNoVoid(g, fromType, toType, checked) ==
  IF numValueTypes(fromType) > 0
    THEN genUnionMemberTagged(g.ir, g.val, fromType, toType, checked,
           genUnionTypeTest(g.ir, g.val, fromType, toType, TRUE))
    ELSE genUnionRef(g.ir, g.val, toType, checked)

\* genUnionMemberCast(in): the argument is stored in a temporary first.
genUnionMemberVar(g, fromType, toType, checked) ==
  IF numValueTypes(fromType) > 0 \/ hasVoidType(fromType)
    THEN genUnionMemberTagged(g.ir, g.val, fromType, toType, checked,
           genUnionTypeTest(g.ir, g.val, fromType, toType, TRUE))
    ELSE genUnionRef(g.ir, g.val, toType, checked)

genUnionMemberCast(fromType, toType, checked, argValue) ==
  IF argValue = NullValue THEN Gen(<<>>, NullValue)
  ELSE LET a == Create(<<>>, "Alloca", NullValue, "temp")
           st == Create(a.ir, "Store", argValue, "temp")
       IN  genUnionMemberVar(Gen(st.ir, a.val), fromType, toType, checked)

\* genInstanceOf(in)
genInstanceOf(fromType, toType, argValue) ==
  IF argValue = NullValue THEN Gen(<<>>, NullValue)
  ELSE IF fromType.cls = "Union"
    THEN genUnionTypeTest(<<>>, argValue, fromType, toType, FALSE)
  ELSE IF ~isCompositeType(fromType) \/ ~isCompositeType(toType)
    THEN Gen(<<>>, Aborted)
  ELSE genCompositeTypeTest(<<>>, argValue, fromType, toType)

\* An upcast that always computes the address of the base.
genUpCastInstrAlways(b, val, from, to) ==
  Create(b, "GEP", val, "upcast")

RECURSIVE SuperDepth(_, _)
SuperDepth(from, to) ==
  IF from = to \/ from.super = "" THEN 0
  ELSE 1 + SuperDepth(TypeNamed(from.super), to)

\* genUpCastInstr(val, from, to)
genUpCastInstr(b, val, from, to) ==
  IF from = to THEN Gen(b, val)
  ELSE IF ~isCompositeType(to) \/ ~isCompositeType(from) THEN Gen(b, Aborted)
  ELSE IF ~isSubclassOf(from, to) THEN Gen(b, val)
  ELSE IF to.cls = "Interface" THEN Create(b, "BitCast", val, "intf_ptr")
  ELSE Create(b, "GEP", val, "upcast")

\* genCast(in, fromType, toType); convs holds the pairs of type names the
\* module has a converter for.  Type::isEqual is identity of the types.
RECURSIVE genCast(_, _, _, _, _)
genCast(b, in, fromType, toType, convs) ==
  IF fromType = toType THEN Gen(b, in)
  ELSE IF <<fromType.name, toType.name>> \in convs
    THEN Create(b, "Call", in, "convert")
  ELSE IF isCompositeType(fromType) /\ isCompositeType(toType)
    THEN IF isSubclassOf(fromType, toType)
           THEN genUpCastInstr(b, in, fromType, toType)
           ELSE LET t == genCompositeTypeTest(b, in, fromType, toType)
                IN  Create(throwCondTypecastError(t.ir, t.val), "PointerCast",
                           in, "typecast")
  ELSE IF isCompositeType(fromType) /\ toType.cls = "Enum"
    THEN genCast(b, in, fromType, TypeNamed(toType.super), convs)
  ELSE IF fromType.cls = "Primitive" /\ toType = GObject
    THEN Create(b, "Call", in, "coerce")
  ELSE IF fromType.cls = "Enum"
    THEN genCast(b, in, TypeNamed(fromType.super), toType, convs)
  ELSE Gen(b, Aborted)

ConverterSets == {{}, {<<"i32", "Foo">>, <<"String", "Foo">>, <<"Foo", "Foo">>}}
ArgValues == {ArgValue, NullValue}

UnionCtorRequest ==
  \E from \in ScalarTypes, to \in UnionTypes, v \in ArgValues :
    op = [name |-> "genUnionCtorCast", from |-> from, to |-> to,
          checked |-> FALSE, arg |-> v, convs |-> {}]

UnionMemberRequest ==
  \E from \in UnionTypes, to \in ScalarTypes, checked \in BOOLEAN,
     v \in ArgValues :
    op = [name |-> "genUnionMemberCast", from |-> from, to |-> to,
          checked |-> checked, arg |-> v, convs |-> {}]

InstanceOfRequest ==
  \E from \in UnionTypes \cup {GFoo, GObject}, to \in ScalarTypes,
     v \in ArgValues :
    op = [name |-> "genInstanceOf", from |-> from, to |-> to,
          checked |-> FALSE, arg |-> v, convs |-> {}]

UpCastRequest ==
  \E from \in ScalarTypes, to \in ScalarTypes, v \in ArgValues :
    op = [name |-> "genUpCast", from |-> from, to |-> to,
          checked |-> FALSE, arg |-> v, convs |-> {}]

CastRequest ==
  \E from \in ScalarTypes, to \in ScalarTypes, convs \in ConverterSets :
    op = [name |-> "genCast", from |-> from, to |-> to,
          checked |-> FALSE, arg |-> ArgValue, convs |-> convs]

InitGen ==
  /\ CallIdle
  /\ EnvIdle
  /\ ScopeIdle /\ BltIdle /\ GCIdle
  /\ GenIdle
  /\ \/ UnionCtorRequest
     \/ UnionMemberRequest
     \/ InstanceOfRequest
     \/ UpCastRequest
     \/ CastRequest

\* The generator ran: g is the builder afterwards and the Value returned.
Generated(name, g) ==
  /\ pc = "idle"
  /\ op.name = name
  /\ pc' = "done"
  /\ ir' = g.ir
  /\ gval' = g.val
  /\ UNCHANGED <<cx, nast, nalloc, expr, op, ctors, result, diags, envVars,
                 scopeVars, bltVars, gcVars>>

GenUnionCtorCast ==
  Generated("genUnionCtorCast", genUnionCtorCast(op.from, op.to, op.arg))

GenUnionMemberCast ==
  Generated("genUnionMemberCast",
            genUnionMemberCast(op.from, op.to, op.checked, op.arg))

GenInstanceOf ==
  Generated("genInstanceOf", genInstanceOf(op.from, op.to, op.arg))

\* genUpCast(in)
GenUpCast ==
  Generated("genUpCast",
            IF op.arg = NullValue THEN Gen(<<>>, NullValue)
            ELSE genUpCastInstr(<<>>, op.arg, op.from, op.to))

GenCast ==
  Generated("genCast", genCast(<<>>, op.arg, op.from, op.to, op.convs))

NextGen ==
  \/ GenUnionCtorCast
  \/ GenUnionMemberCast
  \/ GenInstanceOf
  \/ GenUpCast
  \/ GenCast

SpecGen == InitGen /\ [][NextGen]_vars

---------------------------------------------------------------------------
(* Claims about the generators, for SpecGen.                               *)

\* C24: a type test of a union value against a type that is not a member
\* of the union yields the constant false, for tagged and for
\* pointer-only unions.
C24_NonMemberIsFalse ==
  (/\ pc = "done"
   /\ op.name = "genInstanceOf"
   /\ op.from.cls = "Union"
   /\ op.arg # NullValue
   /\ getTypeIndex(op.from, op.to) < 0) => gval = FalseValue

\* C25: genUpCastInstr with from = to returns the value it was given and
\* creates no instruction, and so does genCast with equal types, also
\* when the module has a converter for the pair.
C25_SameTypeIsIdentity ==
  (/\ pc = "done"
   /\ op.name \in {"genUpCast", "genCast"}
   /\ op.from = op.to
   /\ op.arg # NullValue) => (gval = op.arg /\ ir = <<>>)

\* C25 witness: an upcast of a value from a class to the same class ran.
C25_Witness ==
  /\ pc = "done"
  /\ op.name = "genUpCast"
  /\ op.from = GFoo /\ op.to = GFoo
  /\ op.arg = ArgValue
  /\ gval = ArgValue
  /\ ir = <<>>

\* The union type an operation works on, and its representation.
UnionOf(o) == IF o.name = "genUnionCtorCast" THEN o.to ELSE o.from
IsTagged(u) == numValueTypes(u) > 0 \/ hasVoidType(u)

\* The instructions access the fields of a tagged union.
TaggedPath(is) ==
  \E i \in 1..Len(is) :
    is[i].opc \in {"GEP", "ExtractValue"} /\ is[i].note \in {"tag", "payload"}

\* The typecast error is raised, on a conditional branch, before k.
TestedBefore(is, k) ==
  \E i \in 1..(k - 1), j \in 1..(k - 1) :
    /\ i < j
    /\ is[i].opc = "CondBr"
    /\ is[j].opc = "Call" /\ is[j].note = "typecastError"

\* C28: genUnionCtorCast, genUnionMemberCast and the union type test
\* generate code for the tagged representation exactly when the union
\* has a value-type member or void, and for the pointer-only one
\* otherwise; and a checked member cast of a tagged union branches on the
\* tag test and raises the typecast error before it loads the payload.
C28_SameRepresentation ==
  (/\ pc = "done"
   /\ op.name \in {"genUnionCtorCast", "genUnionMemberCast", "genInstanceOf"}
   /\ UnionOf(op).cls = "Union"
   /\ gval \notin {NullValue, Aborted}) =>
     /\ TaggedPath(ir) <=> IsTagged(UnionOf(op))
     /\ (op.name = "genUnionMemberCast" /\ op.checked /\ IsTagged(op.from)) =>
          \A k \in 1..Len(ir) :
            (ir[k].opc = "Load" /\ ir[k].note = "payload") =>
              TestedBefore(ir, k)

\* C28 witness: a checked member cast of (void | String) to String loaded
\* the payload after the test.
C28_Witness ==
  /\ pc = "done"
  /\ op.name = "genUnionMemberCast"
  /\ op.checked
  /\ op.from = GUnionVS /\ op.to = GString
  /\ gval = InstValue(Len(ir))
  /\ ir[Len(ir)].opc = "Load" /\ ir[Len(ir)].note = "payload"
  /\ TestedBefore(ir, Len(ir))

---------------------------------------------------------------------------
(* SpecBuiltins: the static members of Builtins (lib/Objects/Builtins.cpp).*)
(* registry holds the type_ of every SystemClass, the two annex types,     *)
(* the members loadSystemClasses fills in, and whether the builtin module  *)
(* has its members.                                                        *)

SystemClasses ==
  {"tart.core.TypeInfoBlock", "tart.core.Object", "tart.core.String",
   "tart.core.Array", "tart.core.Range", "tart.core.Throwable",
   "tart.core.UnsupportedOperationException", "tart.reflect.Type",
   "tart.core.Attribute", "tart.annex.Intrinsic"}

\* typeArray.get(), ... : the classes loadSystemClasses asks for.
LoadedClasses ==
  {"tart.core.Array", "tart.core.Attribute", "tart.core.TypeInfoBlock",
   "tart.reflect.Type", "tart.core.Object", "tart.core.String",
   "tart.core.Throwable", "tart.core.UnsupportedOperationException",
   "tart.annex.Intrinsic"}

AnnexTypes == {"tart.core.Iterable", "tart.core.Iterator"}

\* The static initialisers: every pointer is NULL.
StaticRegistry ==
  [classes |-> [c \in SystemClasses |-> "NULL"],
   annex |-> [a \in AnnexTypes |-> "NULL"],
   funcHasBase |-> "NULL",
   funcTypecastError |-> "NULL",
   typeUnwindException |-> "NULL",
   typeAliasString |-> "NULL",
   module |-> "empty"]

\* Builtins::init()
BuiltinsInitRegistry(r) == [r EXCEPT !.module = "members"]

\* SystemClass::get()
SystemClassGet(r, c) ==
  IF r.classes[c] = "NULL" THEN [r EXCEPT !.classes[c] = c] ELSE r

RECURSIVE GetAll(_, _)
GetAll(r, cs) ==
  IF cs = {} THEN r
  ELSE LET c == CHOOSE x \in cs : TRUE
       IN  GetAll(SystemClassGet(r, c), cs \ {c})

\* Builtins::loadSystemClasses()
loadSystemClasses(r) ==
  [GetAll(r, LoadedClasses) EXCEPT
     !.funcHasBase = "hasBase",
     !.funcTypecastError = "typecastError",
     !.typeUnwindException = "UnwindException",
     !.typeAliasString = "tart.core.String"]

\* Builtins::registerEssentialType(type); type is (qualified name, object).
registerEssentialType(r, type) ==
  IF type.name \in AnnexTypes
    THEN [r EXCEPT !.annex[type.name] = type.object]
    ELSE r

\* Builtins::objectCoerceFn(): typeObject is used as a type.
objectCoerceFn(r) == SystemClassGet(r, "tart.core.Object")

InitBuiltins ==
  /\ CallIdle
  /\ op = NoOp
  /\ EnvIdle
  /\ ScopeIdle /\ GenIdle /\ GCIdle
  /\ registry = StaticRegistry
  /\ binit = FALSE

BuiltinsStep(o, r) ==
  /\ registry' = r
  /\ op' = o
  /\ UNCHANGED <<callVars, envVars, scopeVars, genVars, gcVars>>

BuiltinsInit ==
  /\ ~binit
  /\ binit' = TRUE
  /\ BuiltinsStep([name |-> "init"], BuiltinsInitRegistry(registry))

Get ==
  /\ binit
  /\ UNCHANGED binit
  /\ \E c \in {"tart.core.Object", "tart.core.String", "tart.core.Range"} :
       BuiltinsStep([name |-> "get", class |-> c], SystemClassGet(registry, c))

LoadSystemClasses ==
  /\ binit
  /\ UNCHANGED binit
  /\ BuiltinsStep([name |-> "loadSystemClasses"], loadSystemClasses(registry))

RegisterEssentialType ==
  /\ binit
  /\ UNCHANGED binit
  /\ \E n \in AnnexTypes \cup {"tart.core.String"}, o \in {"type1", "type2"} :
       BuiltinsStep([name |-> "registerEssentialType", type |-> n, object |-> o],
                    registerEssentialType(registry, [name |-> n, object |-> o]))

ObjectCoerceFn ==
  /\ binit
  /\ UNCHANGED binit
  /\ BuiltinsStep([name |-> "objectCoerceFn"], objectCoerceFn(registry))

NextBuiltins ==
  \/ BuiltinsInit
  \/ Get
  \/ LoadSystemClasses
  \/ RegisterEssentialType
  \/ ObjectCoerceFn

SpecBuiltins == InitBuiltins /\ [][NextBuiltins]_vars

\* C26: once Builtins::init has completed, no operation changes an entry
\* of the registry.
C26_RegistryImmutable == [][binit => registry' = registry]_vars

---------------------------------------------------------------------------
(* Claims about the analysis of overloads, for Spec.                       *)

\* A function callName found cannot be analyzed up to Task_PrepConversion.
FoundUnanalyzable ==
  \E i \in DOMAIN op.results :
    DefnTable[op.results[i]].kind = "fn" /\ ~DefnTable[op.results[i]].okConv

\* Every candidate that names a method names one that was analyzed.
CandidatesAnalyzed ==
  \A i \in DOMAIN cx.cands :
    cx.cands[i].method # 0 => DefnTable[cx.cands[i].method].okConv

\* C27: every candidate that names a method names one whose analysis up to
\* Task_PrepConversion succeeded; and when callName finds a function whose
\* analysis fails, it returns ErrorVal (unless a fatal diagnostic ended
\* the compilation).
C27_AnalyzedBeforeAdded ==
  pc = "done" =>
    /\ CandidatesAnalyzed
    /\ (NameValuesRan /\ FoundUnanalyzable /\ result # "fatal")
         => result = "ErrorVal"

---------------------------------------------------------------------------
(* SpecGC: the collector of lib/Common/GC.cpp.  An object is the number of *)
(* its allocation, a callback the number of its registration.  A failed    *)
(* DASSERT ends the program, so the asserted condition guards the action.  *)

MaxObjects == 3
MaxCallbacks == 2

\* GC::operator new: the new object becomes the head of allocList_.
operatorNew(list, gc) == <<gc>> \o list

\* The loop of GC::sweep from the i-th object on: the objects that stay
\* linked and the ones given to free(), in list order.
RECURSIVE sweepFrom(_, _, _)
sweepFrom(list, mk, i) ==
  IF i > Len(list) THEN [kept |-> <<>>, freed |-> <<>>]
  ELSE LET rest == sweepFrom(list, mk, i + 1)
       IN  IF list[i] \in mk
             THEN [kept |-> <<list[i]>> \o rest.kept, freed |-> rest.freed]
             ELSE [kept |-> rest.kept, freed |-> <<list[i]>> \o rest.freed]

\* An uninit that keeps the callbacks registered.
uninitKeepCallbacks(cbs, done) == [callbacks |-> cbs, called |-> done \o cbs]

\* GC::uninit: uninitCallbacks and the calls made, afterwards.
uninit(cbs, done) == [callbacks |-> <<>>, called |-> done \o cbs]

InitGC ==
  /\ CallIdle
  /\ op = NoOp
  /\ EnvIdle
  /\ ScopeIdle /\ GenIdle /\ BltIdle
  /\ GCIdle

GCFrame == UNCHANGED <<callVars, envVars, scopeVars, genVars, bltVars>>

\* GC::init()
GCInit ==
  /\ ~initialized
  /\ initialized' = TRUE
  /\ op' = [name |-> "init"]
  /\ UNCHANGED <<allocList, marked, freed, callbacks, called, total,
                 reclaimed, message>>
  /\ GCFrame

\* GC::uninit()
GCUninit ==
  /\ initialized
  /\ initialized' = FALSE
  /\ callbacks' = uninit(callbacks, called).callbacks
  /\ called' = uninit(callbacks, called).called
  /\ op' = [name |-> "uninit", n |-> Len(callbacks)]
  /\ UNCHANGED <<allocList, marked, freed, total, reclaimed, message>>
  /\ GCFrame

\* GC::registerUninitCallback(cb)
RegisterUninitCallback ==
  /\ Len(called) + Len(callbacks) < MaxCallbacks
  /\ callbacks' = Append(callbacks, Len(called) + Len(callbacks) + 1)
  /\ op' = [name |-> "registerUninitCallback"]
  /\ UNCHANGED <<initialized, allocList, marked, freed, called, total,
                 reclaimed, message>>
  /\ GCFrame

\* new of a class derived from GC
GCNew ==
  /\ initialized
  /\ Len(allocList) + Len(freed) < MaxObjects
  /\ allocList' = operatorNew(allocList, Len(allocList) + Len(freed) + 1)
  /\ op' = [name |-> "new"]
  /\ UNCHANGED <<initialized, marked, freed, callbacks, called, total,
                 reclaimed, message>>
  /\ GCFrame

\* GC::mark() on a live object
GCMark ==
  /\ \E gc \in {allocList[i] : i \in 1..Len(allocList)} \ marked :
       marked' = marked \cup {gc}
  /\ op' = [name |-> "mark"]
  /\ UNCHANGED <<initialized, allocList, freed, callbacks, called, total,
                 reclaimed, message>>
  /\ GCFrame

\* GC::sweep(), with debugLevel zero or not
GCSweep ==
  /\ \E debugLevel \in BOOLEAN :
       /\ op' = [name |-> "sweep", list |-> allocList, marks |-> marked,
                 debug |-> debugLevel]
       /\ message' = IF debugLevel
                       THEN << [reclaimed |-> 0, inUse |-> 0 - 0] >>
                       ELSE <<>>
  /\ reclaimed' = 0
  /\ total' = 0
  /\ allocList' = sweepFrom(allocList, marked, 1).kept
  /\ freed' = freed \o sweepFrom(allocList, marked, 1).freed
  /\ UNCHANGED <<initialized, marked, callbacks, called>>
  /\ GCFrame

NextGC ==
  \/ GCInit
  \/ GCUninit
  \/ RegisterUninitCallback
  \/ GCNew
  \/ GCMark
  \/ GCSweep

SpecGC == InitGC /\ [][NextGC]_vars

\* The objects of a list, as a set.
Objects(list) == {list[i] : i \in 1..Len(list)}

\* How many times gc was given to free().
TimesFreed(gc) == Cardinality({i \in 1..Len(freed) : freed[i] = gc})

\* C29: after GC::sweep() the allocation list holds exactly the objects
\* that were marked when the sweep began, in their previous order, every
\* unmarked object is off the list and was freed exactly once, and the
\* debug message reports reclaimed = the number of objects freed and
\* total - reclaimed = the number of objects still on the list.
C29_SweepCounts ==
  op.name = "sweep" =>
    /\ allocList = SelectSeq(op.list, LAMBDA gc : gc \in op.marks)
    /\ \A gc \in Objects(op.list) \ op.marks :
         gc \notin Objects(allocList) /\ TimesFreed(gc) = 1
    /\ op.debug =>
         /\ message[1].reclaimed = Len(op.list) - Len(allocList)
         /\ message[1].inUse = Len(allocList)

\* C30: a step of init() starts uninitialized and ends initialized; a step
\* of uninit() starts initialized, ends uninitialized, calls the registered
\* callbacks in registration order and leaves none registered.
LifecycleStep ==
  /\ op'.name = "init" => ~initialized /\ initialized'
  /\ op'.name = "uninit" =>
       /\ initialized /\ ~initialized'
       /\ called' = called \o callbacks
       /\ callbacks' = <<>>
  /\ initialized' # initialized => op'.name \in {"init", "uninit"}

\* C30: the allocation list grows only while initialized, by one object
\* at its head.
AllocatedWhileInitialized ==
  Len(allocList') > Len(allocList) =>
    initialized /\ Tail(allocList') = allocList

\* C30: no callback has been called twice.
CalledOnce ==
  \A i, j \in 1..Len(called) : called[i] = called[j] => i = j

\* C30: init() and uninit() strictly alternate, objects are allocated at
\* the head of the allocation list only while initialized, and uninit()
\* calls every registered callback exactly once, in registration order,
\* and empties the callback list, so a later cycle does not call them
\* again.
C30_Lifecycle ==
  [][LifecycleStep /\ AllocatedWhileInitialized /\ CalledOnce']_vars

\* C30: a second uninit() has called only the callback registered since
\* the first one.
C30_Witness ==
  /\ op.name = "uninit"
  /\ op.n = 1
  /\ called = <<1, 2>>
  /\ callbacks = <<>>
  /\ allocList # <<>>

====
